---- MODULE Spec2Model ----
(***************************************************************************)
(* A model of terminal_browser.c (DenisDolya/cli-arsenal): the byte        *)
(* preprocessor, the tag-stack tree builder, the renderer and its pad,     *)
(* and the viewport loop of main.  Text is a sequence of byte values       *)
(* (1..255, a C string without its terminating NUL); positions are         *)
(* 1-based, so the C index i is position i+1.                              *)
(***************************************************************************)
EXTENDS Integers, Sequences, FiniteSets, TLC

VARIABLES
    \* ---- main(): the session ----
    pc,           \* where main is: "loop", "ui", "cleanup", "exit0", "exit1", "hung"
    running,      \* int running
    need_load,    \* int need_load
    root,         \* Node *root: 0 is NULL, otherwise the number of the allocation
    dom,          \* the tree root points to (a sequence of Node records), <<>> for NULL
    allocs,       \* one entry per tree ever built: per node, how often it was free()d
    top_pos,      \* static int top_pos
    g_term_h,     \* terminal height read by getmaxyx
    g_term_w,     \* terminal width read by getmaxyx
    g_pad_cur_y,  \* content height set by render_document
    ch,           \* the key getch() returned last
    \* ---- the preprocessor, applied to one buffer ----
    buf,          \* the buffer handed to the function
    out,          \* what the function left or returned
    ppc,          \* "in" before the call, "out" after it
    \* ---- parse_html_tree, one loop iteration at a time ----
    html,         \* the markup being parsed
    ps,           \* the locals of parse_html_tree: pos, stack, the nodes, done
    \* ---- one call of the renderer ----
    rin,          \* what is rendered: a text and an indent, or a document
    g_pad,        \* WINDOW *g_pad: the cells the calls made on it address
    ypos,         \* *y on return (int y of render_document)
    rpc,          \* "call" before the call, "done" after it, "fault" if it died
    \* ---- parse_attrs, applied to one attribute text ----
    atext,        \* the text handed to parse_attrs
    awritten,     \* the attributes that text was written from
    attrs,        \* the Attr list parse_attrs returned
    apc,          \* "in" before the call, "out" after it
    \* ---- the calculator, reading one line ----
    cline,        \* char input[MAX_INPUT]: the line, its newline removed
    tk,           \* the locals of tokenize: p and the tokens written
    calc,         \* Calculator calc
    cerr,         \* CalcError error
    cread,        \* the highest token slot the parser read
    cpc           \* "tokenize", "parse", "done", or "fault" if the process died

vars == <<pc, running, need_load, root, dom, allocs, top_pos, g_term_h, g_term_w,
          g_pad_cur_y, ch, buf, out, ppc, html, ps, rin, g_pad, ypos, rpc,
          atext, awritten, attrs, apc, cline, tk, calc, cerr, cread, cpc>>

sessionVars == <<pc, running, need_load, root, dom, allocs, top_pos, g_term_h,
                 g_term_w, g_pad_cur_y, ch>>
preVars == <<buf, out, ppc>>
parseVars == <<html, ps>>
renderVars == <<rin, g_pad, ypos, rpc>>
attrVars == <<atext, awritten, attrs, apc>>
calcVars == <<cline, tk, calc, cerr, cread, cpc>>

(***************************************************************************)
(* Characters.  Ch("x") is the byte value of the C character literal 'x'.  *)
(***************************************************************************)
Printable ==
    <<" ", "!", "\"", "#", "$", "%", "&", "'", "(", ")", "*", "+", ",", "-", ".", "/",
      "0", "1", "2", "3", "4", "5", "6", "7", "8", "9", ":", ";", "<", "=", ">", "?",
      "@", "A", "B", "C", "D", "E", "F", "G", "H", "I", "J", "K", "L", "M", "N", "O",
      "P", "Q", "R", "S", "T", "U", "V", "W", "X", "Y", "Z", "[", "backslash", "]", "^", "_",
      "backquote", "a", "b", "c", "d", "e", "f", "g", "h", "i", "j", "k", "l", "m", "n", "o",
      "p", "q", "r", "s", "t", "u", "v", "w", "x", "y", "z", "{", "|", "}", "~">>

Ch(c) == 31 + (CHOOSE i \in 1..Len(Printable) : Printable[i] = c)

\* A C string literal, written as a tuple of one-character strings.
Str(t) == [i \in 1..Len(t) |-> Ch(t[i])]

\* The character literals the code names, each evaluated once.
C_LT == Ch("<")
C_GT == Ch(">")
C_SLASH == Ch("/")
C_SP == Ch(" ")
C_QM == Ch("?")
C_DASH == Ch("-")
C_UA == Ch("A")
C_UZ == Ch("Z")
C_LA == Ch("a")
C_LZ == Ch("z")
C_LH == Ch("h")
C_D0 == Ch("0")
C_D9 == Ch("9")
C_PLUS == Ch("+")
C_US == Ch("_")
NL == C_SP - 22     \* newline
TAB == C_SP - 23    \* horizontal tab
CR == C_SP - 19     \* carriage return

\* <ctype.h> in the C locale
tolower(c) == IF c >= C_UA /\ c <= C_UZ THEN c + (C_LA - C_UA) ELSE c
isdigit(c) == c >= C_D0 /\ c <= C_D9
isalpha(c) == (c >= C_UA /\ c <= C_UZ) \/ (c >= C_LA /\ c <= C_LZ)
isalnum(c) == isalpha(c) \/ isdigit(c)
isspace(c) == c = C_SP \/ (c >= TAB /\ c <= CR)

Min(a, b) == IF a < b THEN a ELSE b
Max(a, b) == IF a > b THEN a ELSE b

\* s from position p on (the C pointer s + (p-1)); empty past the end
Tail_(s, p) == IF p > Len(s) THEN <<>> ELSE SubSeq(s, p, Len(s))

\* strncmp(s + (p-1), lit, Len(lit)) == 0
StartsWith(s, p, lit) ==
    /\ p + Len(lit) - 1 <= Len(s)
    /\ \A k \in 1..Len(lit) : s[p + k - 1] = lit[k]

\* strncasecmp(s + (p-1), lit, Len(lit)) == 0
StartsWithCI(s, p, lit) ==
    /\ p + Len(lit) - 1 <= Len(s)
    /\ \A k \in 1..Len(lit) : tolower(s[p + k - 1]) = tolower(lit[k])

\* strstr(s + (p-1), lit): the position of the first match at or after p, 0 for NULL
strstr(s, p, lit) ==
    LET hits == {q \in p..Len(s) : StartsWith(s, q, lit)}
    IN  IF hits = {} THEN 0 ELSE CHOOSE q \in hits : \A r \in hits : q <= r

\* strcasestr_local(s + (p-1), lit)
strcasestr(s, p, lit) ==
    LET hits == {q \in p..Len(s) : StartsWithCI(s, q, lit)}
    IN  IF hits = {} THEN 0 ELSE CHOOSE q \in hits : \A r \in hits : q <= r

\* strchr(s + (p-1), c)
strchr(s, p, c) ==
    LET hits == {q \in p..Len(s) : s[q] = c}
    IN  IF hits = {} THEN 0 ELSE CHOOSE q \in hits : \A r \in hits : q <= r

(***************************************************************************)
(* sanitize_ascii_inplace                                                  *)
(***************************************************************************)
SanitizeByte(c) ==
    IF c >= 128 THEN C_QM
    ELSE IF c < 32 /\ c # NL /\ c # TAB /\ c # CR THEN C_SP
    ELSE c

sanitize_ascii_inplace(b) == [i \in 1..Len(b) |-> SanitizeByte(b[i])]

(***************************************************************************)
(* strip_script_style_meta: the for loop over i, here p = i + 1, with the  *)
(* output written so far in o.                                             *)
(***************************************************************************)
L_script == Str(<<"s", "c", "r", "i", "p", "t">>)
L_cscript == Str(<<"/", "s", "c", "r", "i", "p", "t">>)
L_endscript == Str(<<"<", "/", "s", "c", "r", "i", "p", "t", ">">>)
L_style == Str(<<"s", "t", "y", "l", "e">>)
L_cstyle == Str(<<"/", "s", "t", "y", "l", "e">>)
L_endstyle == Str(<<"<", "/", "s", "t", "y", "l", "e", ">">>)
L_meta == Str(<<"m", "e", "t", "a">>)
L_link == Str(<<"l", "i", "n", "k">>)

\* i + 8 < n && (strncasecmp(src+i+1,"script",6)==0 || strncasecmp(src+i+1,"/script",7)==0)
IsScriptAt(src, p) ==
    /\ (p - 1) + 8 < Len(src)
    /\ (StartsWithCI(src, p + 1, L_script) \/ StartsWithCI(src, p + 1, L_cscript))

\* i + 7 < n && (strncasecmp(src+i+1,"style",5)==0 || strncasecmp(src+i+1,"/style",6)==0)
IsStyleAt(src, p) ==
    /\ (p - 1) + 7 < Len(src)
    /\ (StartsWithCI(src, p + 1, L_style) \/ StartsWithCI(src, p + 1, L_cstyle))

\* i + 5 < n && (strncasecmp(src+i+1,"meta",4)==0 || strncasecmp(src+i+1,"link",4)==0)
IsMetaAt(src, p) ==
    /\ (p - 1) + 5 < Len(src)
    /\ (StartsWithCI(src, p + 1, L_meta) \/ StartsWithCI(src, p + 1, L_link))

\* Where the loop resumes after an end tag found at position e:
\* i = (end - src) + 8 - 1 (or + 7 - 1), then the for loop's ++i.
ResumeAfterEnd(e, endlen) == ((e - 1) + (endlen - 1) - 1) + 1 + 1

RECURSIVE StripLoop(_, _, _)
StripLoop(src, p, o) ==
    IF p > Len(src) THEN o
    ELSE IF src[p] = C_LT /\ IsScriptAt(src, p) THEN
        LET e == strcasestr(src, p, L_endscript)
        IN  IF e # 0 THEN StripLoop(src, ResumeAfterEnd(e, Len(L_endscript)), o) ELSE o
    ELSE IF src[p] = C_LT /\ IsStyleAt(src, p) THEN
        LET e == strcasestr(src, p, L_endstyle)
        IN  IF e # 0 THEN StripLoop(src, ResumeAfterEnd(e, Len(L_endstyle)), o) ELSE o
    ELSE IF src[p] = C_LT /\ IsMetaAt(src, p) /\ strchr(src, p, C_GT) # 0 THEN
        StripLoop(src, strchr(src, p, C_GT) + 1, o)
    ELSE StripLoop(src, p + 1, Append(o, src[p]))

strip_script_style_meta(src) == StripLoop(src, 1, <<>>)

(***************************************************************************)
(* Nodes.  The allocated nodes of one tree are a sequence of records, a    *)
(* Node* is an index into it, and node 1 is the synthetic root.  A text of *)
(* <<>> is the NULL text of a node that is no text node (every text node   *)
(* holds at least one character).                                          *)
(***************************************************************************)
node_create(t) ==
    [type |-> t, text |-> <<>>, children |-> <<>>, parent |-> 0,
     expanded |-> 0, list_number |-> 0]

\* A plausible slip: child->parent = parent is left out.
AppendChildNoParent(nodes, parent, child) ==
    LET c == Len(nodes) + 1
    IN  Append([nodes EXCEPT ![parent].children = Append(@, c)], child)

\* node_append_child(parent, child) for a child just created: the child takes
\* the next index, is appended to parent's children and points back to it.
node_append_child(nodes, parent, child) ==
    LET c == Len(nodes) + 1
    IN  Append([nodes EXCEPT ![parent].children = Append(@, c)],
               [child EXCEPT !.parent = parent])

\* Transparent tags: no box or extra lines are drawn for them
is_transparent(t) == t \in {"NODE_DIV", "NODE_MAIN", "NODE_HEADERBAR", "NODE_FOOTER"}

(***************************************************************************)
(* parse_html_tree.  st holds the locals: pos (1-based), the stack of open *)
(* nodes (stack[1] is the root, Len(stack) is sp), the nodes, done once    *)
(* the while loop has been left; last names the branch the latest          *)
(* iteration took, pushes and matched count the stack[sp++] = node         *)
(* statements executed and the closing tags that found a match.            *)
(***************************************************************************)
TagBufSize == 64

\* The else-if chain of strcmp(tag, ...) on an opening tag: the node type made
\* for each name and whether the node is pushed on the stack.
OpenTagTable ==
    <<
      [name |-> Str(<<"b", "r">>), type |-> "NODE_BR", push |-> FALSE],
      [name |-> Str(<<"h", "r">>), type |-> "NODE_HR", push |-> FALSE],
      [name |-> Str(<<"d", "i", "v">>), type |-> "NODE_DIV", push |-> TRUE],
      [name |-> Str(<<"m", "a", "i", "n">>), type |-> "NODE_MAIN", push |-> TRUE],
      [name |-> Str(<<"p">>), type |-> "NODE_PARAGRAPH", push |-> TRUE],
      [name |-> Str(<<"p", "r", "e">>), type |-> "NODE_PRE", push |-> TRUE],
      [name |-> Str(<<"c", "o", "d", "e">>), type |-> "NODE_CODE", push |-> TRUE],
      [name |-> Str(<<"b", "l", "o", "c", "k", "q", "u", "o", "t", "e">>), type |-> "NODE_BLOCKQUOTE", push |-> TRUE],
      [name |-> Str(<<"q">>), type |-> "NODE_BLOCKQUOTE", push |-> TRUE],
      [name |-> Str(<<"u", "l">>), type |-> "NODE_UL", push |-> TRUE],
      [name |-> Str(<<"o", "l">>), type |-> "NODE_OL", push |-> TRUE],
      [name |-> Str(<<"l", "i">>), type |-> "NODE_LI", push |-> TRUE],
      [name |-> Str(<<"d", "l">>), type |-> "NODE_DL", push |-> TRUE],
      [name |-> Str(<<"d", "t">>), type |-> "NODE_DT", push |-> TRUE],
      [name |-> Str(<<"d", "d">>), type |-> "NODE_DD", push |-> TRUE],
      [name |-> Str(<<"f", "i", "g", "u", "r", "e">>), type |-> "NODE_FIGURE", push |-> TRUE],
      [name |-> Str(<<"f", "i", "g", "c", "a", "p", "t", "i", "o", "n">>), type |-> "NODE_FIGCAP", push |-> TRUE],
      [name |-> Str(<<"d", "e", "t", "a", "i", "l", "s">>), type |-> "NODE_DETAILS", push |-> TRUE],
      [name |-> Str(<<"s", "u", "m", "m", "a", "r", "y">>), type |-> "NODE_SUMMARY", push |-> TRUE],
      [name |-> Str(<<"t", "a", "b", "l", "e">>), type |-> "NODE_TABLE", push |-> TRUE],
      [name |-> Str(<<"t", "r">>), type |-> "NODE_TR", push |-> TRUE],
      [name |-> Str(<<"t", "d">>), type |-> "NODE_TD", push |-> TRUE],
      [name |-> Str(<<"t", "h">>), type |-> "NODE_TH", push |-> TRUE],
      [name |-> Str(<<"a">>), type |-> "NODE_A", push |-> TRUE],
      [name |-> Str(<<"i", "m", "g">>), type |-> "NODE_IMG", push |-> FALSE],
      [name |-> Str(<<"f", "o", "r", "m">>), type |-> "NODE_FORM", push |-> TRUE],
      [name |-> Str(<<"i", "n", "p", "u", "t">>), type |-> "NODE_INPUT", push |-> FALSE],
      [name |-> Str(<<"t", "e", "x", "t", "a", "r", "e", "a">>), type |-> "NODE_TEXTAREA", push |-> TRUE],
      [name |-> Str(<<"s", "e", "l", "e", "c", "t">>), type |-> "NODE_SELECT", push |-> TRUE],
      [name |-> Str(<<"b", "u", "t", "t", "o", "n">>), type |-> "NODE_BUTTON", push |-> FALSE],
      [name |-> Str(<<"h", "e", "a", "d", "e", "r">>), type |-> "NODE_HEADERBAR", push |-> TRUE],
      [name |-> Str(<<"f", "o", "o", "t", "e", "r">>), type |-> "NODE_FOOTER", push |-> TRUE],
      [name |-> Str(<<"s", "t", "r", "o", "n", "g">>), type |-> "NODE_BOLD", push |-> TRUE],
      [name |-> Str(<<"b">>), type |-> "NODE_BOLD", push |-> TRUE],
      [name |-> Str(<<"e", "m">>), type |-> "NODE_ITALIC", push |-> TRUE],
      [name |-> Str(<<"i">>), type |-> "NODE_ITALIC", push |-> TRUE],
      [name |-> Str(<<"c", "i", "t", "e">>), type |-> "NODE_ITALIC", push |-> TRUE],
      [name |-> Str(<<"d", "f", "n">>), type |-> "NODE_ITALIC", push |-> TRUE],
      [name |-> Str(<<"a", "d", "d", "r", "e", "s", "s">>), type |-> "NODE_ITALIC", push |-> TRUE],
      [name |-> Str(<<"m", "a", "r", "k">>), type |-> "NODE_MARK", push |-> TRUE],
      [name |-> Str(<<"u">>), type |-> "NODE_UNDER", push |-> TRUE],
      [name |-> Str(<<"i", "n", "s">>), type |-> "NODE_UNDER", push |-> TRUE],
      [name |-> Str(<<"a", "b", "b", "r">>), type |-> "NODE_UNDER", push |-> TRUE],
      [name |-> Str(<<"d", "e", "l">>), type |-> "NODE_STRIKE", push |-> TRUE],
      [name |-> Str(<<"s", "a", "m", "p">>), type |-> "NODE_CODE", push |-> TRUE]
    >>

\* The switch over n->type on a closing tag: the names each type accepts.
CloseTagTable ==
    <<
      [type |-> "NODE_DIV", names |-> {Str(<<"d", "i", "v">>)}],
      [type |-> "NODE_MAIN", names |-> {Str(<<"m", "a", "i", "n">>)}],
      [type |-> "NODE_HEADERBAR", names |-> {Str(<<"h", "e", "a", "d", "e", "r">>)}],
      [type |-> "NODE_FOOTER", names |-> {Str(<<"f", "o", "o", "t", "e", "r">>)}],
      [type |-> "NODE_PARAGRAPH", names |-> {Str(<<"p">>)}],
      [type |-> "NODE_PRE", names |-> {Str(<<"p", "r", "e">>)}],
      [type |-> "NODE_CODE", names |-> {Str(<<"c", "o", "d", "e">>)}],
      [type |-> "NODE_BLOCKQUOTE", names |-> {Str(<<"b", "l", "o", "c", "k", "q", "u", "o", "t", "e">>), Str(<<"q">>)}],
      [type |-> "NODE_UL", names |-> {Str(<<"u", "l">>)}],
      [type |-> "NODE_OL", names |-> {Str(<<"o", "l">>)}],
      [type |-> "NODE_LI", names |-> {Str(<<"l", "i">>)}],
      [type |-> "NODE_TABLE", names |-> {Str(<<"t", "a", "b", "l", "e">>)}],
      [type |-> "NODE_TR", names |-> {Str(<<"t", "r">>)}],
      [type |-> "NODE_TD", names |-> {Str(<<"t", "d">>)}],
      [type |-> "NODE_TH", names |-> {Str(<<"t", "h">>)}],
      [type |-> "NODE_A", names |-> {Str(<<"a">>)}],
      [type |-> "NODE_DETAILS", names |-> {Str(<<"d", "e", "t", "a", "i", "l", "s">>)}],
      [type |-> "NODE_SUMMARY", names |-> {Str(<<"s", "u", "m", "m", "a", "r", "y">>)}],
      [type |-> "NODE_FIGURE", names |-> {Str(<<"f", "i", "g", "u", "r", "e">>)}],
      [type |-> "NODE_FIGCAP", names |-> {Str(<<"f", "i", "g", "c", "a", "p", "t", "i", "o", "n">>)}]
    >>

L_comment == Str(<<"!", "-", "-">>)
L_endcomment == Str(<<"-", "-", ">">>)


\* while(*p && isspace(*p)) p++
RECURSIVE SkipSpace(_, _)
SkipSpace(s, p) == IF p <= Len(s) /\ isspace(s[p]) THEN SkipSpace(s, p + 1) ELSE p

\* while(*p && (isalnum(*p) || *p == '-') && ti + 1 < sizeof(tag)) tag[ti++] = tolower(*p++)
RECURSIVE TagRun(_, _, _)
TagRun(s, p, tag) ==
    IF p <= Len(s) /\ (isalnum(s[p]) \/ s[p] = C_DASH) /\ Len(tag) + 1 < TagBufSize
    THEN TagRun(s, p + 1, Append(tag, tolower(s[p])))
    ELSE tag

\* The text between '<' and '>': whether it is a closing tag, and its name.
TagOf(inside) ==
    LET p0 == SkipSpace(inside, 1)
        closing == p0 <= Len(inside) /\ inside[p0] = C_SLASH
        p1 == IF closing THEN p0 + 1 ELSE p0
    IN  [closing |-> closing, tag |-> TagRun(inside, p1, <<>>)]

\* What stands at pos: the branch the loop body takes, for a tag the position
\* gt of its '>' and its name.
Look(h, pos) ==
    IF pos > Len(h) THEN [kind |-> "end", gt |-> 0, tag |-> <<>>]
    ELSE IF h[pos] # C_LT THEN [kind |-> "text", gt |-> 0, tag |-> <<>>]
    ELSE LET gt == strchr(h, pos + 1, C_GT)
         IN  IF gt = 0 THEN [kind |-> "break", gt |-> 0, tag |-> <<>>]
             ELSE LET inside == SubSeq(h, pos + 1, gt - 1)
                      t == TagOf(inside)
                  IN  IF StartsWith(inside, 1, L_comment)
                      THEN [kind |-> "comment", gt |-> gt, tag |-> <<>>]
                      ELSE [kind |-> IF t.closing THEN "close" ELSE "open",
                            gt |-> gt, tag |-> t.tag]

\* A plausible slip: a void element is pushed like a container.
OpenLookupPushesVoid(tag) ==
    LET hits == {k \in 1..Len(OpenTagTable) : OpenTagTable[k].name = tag}
    IN  IF hits # {}
        THEN [type |-> OpenTagTable[CHOOSE k \in hits : TRUE].type, push |-> TRUE]
        ELSE IF Len(tag) >= 2 /\ tag[1] = C_LH /\ isdigit(tag[2])
        THEN [type |-> "NODE_HEADER", push |-> TRUE]
        ELSE [type |-> "NODE_DIV", push |-> TRUE]

\* The node type and push flag of an opening tag name.
OpenLookup(tag) ==
    LET hits == {k \in 1..Len(OpenTagTable) : OpenTagTable[k].name = tag}
    IN  IF hits # {}
        THEN LET k == CHOOSE k \in hits : TRUE
             IN  [type |-> OpenTagTable[k].type, push |-> OpenTagTable[k].push]
        ELSE IF Len(tag) >= 2 /\ tag[1] = C_LH /\ isdigit(tag[2])
        THEN [type |-> "NODE_HEADER", push |-> TRUE]
        ELSE [type |-> "NODE_DIV", push |-> TRUE]

\* match, for an open node of type t and the closing tag's name
CloseMatches(t, tag) ==
    IF t = "NODE_HEADER" THEN Len(tag) >= 1 /\ tag[1] = C_LH
    ELSE \E k \in 1..Len(CloseTagTable) :
            CloseTagTable[k].type = t /\ tag \in CloseTagTable[k].names

\* A plausible slip: sp = i + 1, which keeps the matching node on the stack.
RECURSIVE CloseScanKeepsMatch(_, _, _, _)
CloseScanKeepsMatch(stack, nodes, i, tag) ==
    IF i < 2 THEN Len(stack)
    ELSE IF CloseMatches(nodes[stack[i]].type, tag) THEN i
    ELSE CloseScanKeepsMatch(stack, nodes, i - 1, tag)

\* for(int i = sp-1; i > 0; --i) { ... if(match) { sp = i; break; } }: the value
\* of sp after the loop, scanning from stack entry i (1-based) downwards.
RECURSIVE CloseScan(_, _, _, _)
CloseScan(stack, nodes, i, tag) ==
    IF i < 2 THEN Len(stack)
    ELSE IF CloseMatches(nodes[stack[i]].type, tag) THEN i - 1
    ELSE CloseScan(stack, nodes, i - 1, tag)

\* The collapse-whitespace loop over a text chunk
RECURSIVE CollapseLoop(_, _, _, _)
CollapseLoop(chunk, i, o, last_space) ==
    IF i > Len(chunk) THEN o
    ELSE IF chunk[i] = CR THEN CollapseLoop(chunk, i + 1, o, last_space)
    ELSE LET c == IF chunk[i] = NL \/ chunk[i] = TAB THEN C_SP ELSE chunk[i]
         IN  IF isspace(c)
             THEN CollapseLoop(chunk, i + 1,
                               IF last_space THEN o ELSE Append(o, C_SP), TRUE)
             ELSE CollapseLoop(chunk, i + 1, Append(o, c), FALSE)

\* while(oi > 0 && out[oi-1] == ' ') oi--
RECURSIVE TrimRight(_)
TrimRight(o) ==
    IF Len(o) > 0 /\ o[Len(o)] = C_SP THEN TrimRight(SubSeq(o, 1, Len(o) - 1)) ELSE o

collapse(chunk) == TrimRight(CollapseLoop(chunk, 1, <<>>, FALSE))

ParseStart ==
    [pos |-> 1, stack |-> <<1>>, nodes |-> <<node_create("NODE_DIV")>>,
     done |-> FALSE, last |-> "start", pushes |-> 0, matched |-> 0]

\* if(gt >= len) break;
StepBreak(h, st) == [st EXCEPT !.done = TRUE, !.last = "break"]

\* the comment branch: pos moves past "-->" if there is one and stays otherwise
StepComment(h, st) ==
    LET e == strstr(h, st.pos + 4, L_endcomment)
    IN  [st EXCEPT !.pos = IF e # 0 THEN e + 3 ELSE @, !.last = "comment"]

\* the closing-tag branch
StepClose(h, st) ==
    LET t == Look(h, st.pos)
        sp == CloseScan(st.stack, st.nodes, Len(st.stack), t.tag)
    IN  [st EXCEPT !.stack = SubSeq(@, 1, sp),
                   !.matched = IF sp < Len(st.stack) THEN @ + 1 ELSE @,
                   !.pos = t.gt + 1, !.last = "close"]

\* the opening-tag branch
StepOpen(h, st) ==
    LET t == Look(h, st.pos)
        e == OpenLookup(t.tag)
        top == st.stack[Len(st.stack)]
    IN  [st EXCEPT !.nodes = node_append_child(@, top, node_create(e.type)),
                   !.stack = IF e.push THEN Append(@, Len(st.nodes) + 1) ELSE @,
                   !.pushes = IF e.push THEN @ + 1 ELSE @,
                   !.pos = t.gt + 1, !.last = "open"]

\* the text branch
StepText(h, st) ==
    LET lt == strchr(h, st.pos, C_LT)
        stop == IF lt = 0 THEN Len(h) + 1 ELSE lt
        chunk == SubSeq(h, st.pos, stop - 1)
        top == st.stack[Len(st.stack)]
        verbatim == st.nodes[top].type \in {"NODE_PRE", "NODE_CODE"}
        txt == IF verbatim THEN chunk ELSE collapse(chunk)
    IN  [st EXCEPT !.nodes = IF Len(txt) > 0
                             THEN node_append_child(@, top,
                                      [node_create("NODE_TEXT") EXCEPT !.text = txt])
                             ELSE @,
                   !.pos = stop, !.last = "text"]

\* while(pos < len) is false: free(stack); return root.  The stack is kept as
\* it stood when the loop was left.
StepEnd(h, st) == [st EXCEPT !.done = TRUE, !.last = "end"]

\* One iteration of the while loop
ParseStep(h, st) ==
    LET k == Look(h, st.pos).kind
    IN  CASE k = "end" -> StepEnd(h, st)
          [] k = "break" -> StepBreak(h, st)
          [] k = "comment" -> StepComment(h, st)
          [] k = "close" -> StepClose(h, st)
          [] k = "open" -> StepOpen(h, st)
          [] k = "text" -> StepText(h, st)

\* The loop never leaves a comment that has a '>' after it and no "-->".
Spins(h, st) ==
    /\ ~st.done
    /\ Look(h, st.pos).kind = "comment"
    /\ strstr(h, st.pos + 4, L_endcomment) = 0

\* parse_html_tree run to its return, or to the iteration it repeats forever
\* (last = "spin").
RECURSIVE ParseRun(_, _)
ParseRun(h, st) ==
    IF st.done THEN st
    ELSE IF Spins(h, st) THEN [st EXCEPT !.last = "spin"]
    ELSE ParseRun(h, ParseStep(h, st))

parse_html_tree(h) == ParseRun(h, ParseStart)

(***************************************************************************)
(* Attributes.  An Attr list is the sequence of its [name, value] entries  *)
(* in list order; a lookup answers [found, value], found = FALSE standing  *)
(* for the NULL pointer.                                                   *)
(***************************************************************************)
AttrNameBufSize == 128     \* char name[128]
AttrValueBufSize == 512    \* char value[512]

C_EQ == Ch("=")
C_DQ == Ch("\"")
C_SQ == Ch("'")
C_COLON == Ch(":")

\* attr_create: the name and the value are copied
attr_create(name, value) == [name |-> name, value |-> value]

\* strcasecmp(a, b) == 0
strcaseeq(a, b) ==
    /\ Len(a) = Len(b)
    /\ \A i \in 1..Len(a) : tolower(a[i]) = tolower(b[i])

\* attr_get_value: the value of the first entry whose name matches, else NULL
attr_get_value(a, name) ==
    LET hits == {i \in 1..Len(a) : strcaseeq(a[i].name, name)}
    IN  IF hits = {} THEN [found |-> FALSE, value |-> <<>>]
        ELSE [found |-> TRUE,
              value |-> a[CHOOSE i \in hits : \A j \in hits : i <= j].value]

\* while(*p && (isalnum(*p) || *p=='-' || *p==':') && ni+1 < sizeof(name))
\*     name[ni++] = *p++;
RECURSIVE AttrNameRun(_, _, _)
AttrNameRun(s, p, name) ==
    IF p <= Len(s) /\ (isalnum(s[p]) \/ s[p] = C_DASH \/ s[p] = C_COLON)
       /\ Len(name) + 1 < AttrNameBufSize
    THEN AttrNameRun(s, p + 1, Append(name, s[p]))
    ELSE [p |-> p, text |-> name]

\* while(*p && *p != q && vi+1 < sizeof(value)) value[vi++] = *p++;
RECURSIVE QuotedRun(_, _, _, _)
QuotedRun(s, p, q, value) ==
    IF p <= Len(s) /\ s[p] # q /\ Len(value) + 1 < AttrValueBufSize
    THEN QuotedRun(s, p + 1, q, Append(value, s[p]))
    ELSE [p |-> p, text |-> value]

\* while(*p && !isspace(*p) && *p!='>' && vi+1 < sizeof(value)) value[vi++] = *p++;
RECURSIVE UnquotedRun(_, _, _)
UnquotedRun(s, p, value) ==
    IF p <= Len(s) /\ ~isspace(s[p]) /\ s[p] # C_GT
       /\ Len(value) + 1 < AttrValueBufSize
    THEN UnquotedRun(s, p + 1, Append(value, s[p]))
    ELSE [p |-> p, text |-> value]

\* The value scanned from position p: quoted (the closing quote is stepped
\* over when it is there) or unquoted.
AttrValueAt(s, p) ==
    IF p <= Len(s) /\ (s[p] = C_DQ \/ s[p] = C_SQ)
    THEN LET v == QuotedRun(s, p + 1, s[p], <<>>)
         IN  [p |-> IF v.p <= Len(s) /\ s[v.p] = s[p] THEN v.p + 1 ELSE v.p,
              text |-> v.text]
    ELSE UnquotedRun(s, p, <<>>)

\* The while(*p) loop of parse_attrs from position p, head being the list so
\* far.
RECURSIVE AttrLoop(_, _, _)
AttrLoop(s, p, head) ==
    LET p1 == SkipSpace(s, p)
        n == AttrNameRun(s, p1, <<>>)
        p2 == SkipSpace(s, n.p)
        p3 == IF p2 <= Len(s) /\ s[p2] = C_EQ THEN p2 + 1 ELSE p2
        v == AttrValueAt(s, SkipSpace(s, p3))
    IN  IF p > Len(s) \/ p1 > Len(s) THEN head
        ELSE IF n.text = <<>> THEN head
        ELSE AttrLoop(s, v.p, Append(head, attr_create(n.text, v.text)))

parse_attrs(s) == AttrLoop(s, 1, <<>>)

(***************************************************************************)
(* calculator.c.  A double that is an integer is that integer; the lines   *)
(* the model reads compute no other double, and the constants that are no  *)
(* integers stand in the variable table under the names of their macros.   *)
(* Token slot k of the C array is element k + 1 of the token sequence; the *)
(* fields tokenize leaves unwritten in a slot read as 0 and "".            *)
(***************************************************************************)
MAX_INPUT == 1024
MAX_VARS == 100
HISTORY_SIZE == 50
MAX_TOKENS == 200
MAX_FUNC_ARGS == 10
NameBufSize == 32    \* char name[32]

C_DOT == Ch(".")
C_LP == Ch("(")
C_RP == Ch(")")
C_COMMA == Ch(",")
C_STAR == Ch("*")
C_PCT == Ch("%")

Variable(name, value, constant) == [name |-> name, real |-> value, constant |-> constant]

\* find_variable: the index (from 1) of the first variable of that name, 0 for
\* NULL
find_variable(cal, name) ==
    LET hits == {i \in 1..Len(cal.variables) : cal.variables[i].name = name}
    IN  IF hits = {} THEN 0 ELSE CHOOSE i \in hits : \A j \in hits : i <= j

\* set_variable: the calculator afterwards and the value returned
set_variable(cal, name, value, constant) ==
    LET var == find_variable(cal, name)
    IN  IF var # 0
        THEN IF cal.variables[var].constant # 0 THEN [calc |-> cal, ok |-> 0]
             ELSE [calc |-> [cal EXCEPT !.variables[var].real = value], ok |-> 1]
        ELSE IF Len(cal.variables) >= MAX_VARS THEN [calc |-> cal, ok |-> 0]
        ELSE [calc |-> [cal EXCEPT !.variables =
                           Append(@, Variable(SubSeq(name, 1, Min(Len(name), NameBufSize - 1)),
                                              value, constant))],
              ok |-> 1]

\* The constants of init_calculator, in its order
ConstantTable ==
    << [name |-> Str(<<"p", "i">>), value |-> "PI"],
       [name |-> Str(<<"e">>), value |-> "E"],
       [name |-> Str(<<"p", "h", "i">>), value |-> "PHI"],
       [name |-> Str(<<"g", "a", "m", "m", "a">>), value |-> "GAMMA"],
       [name |-> Str(<<"c">>), value |-> "LIGHT_SPEED"],
       [name |-> Str(<<"G">>), value |-> "GRAVITATIONAL_CONSTANT"],
       [name |-> Str(<<"h">>), value |-> "PLANCK_CONSTANT"],
       [name |-> Str(<<"q">>), value |-> "ELECTRON_CHARGE"],
       [name |-> Str(<<"N", "a">>), value |-> "AVOGADRO"],
       [name |-> Str(<<"k">>), value |-> "BOLTZMANN"],
       [name |-> Str(<<"i", "n", "f">>), value |-> "INFINITY"],
       [name |-> Str(<<"i">>), value |-> 0] >>

init_calculator ==
    [variables |-> [k \in 1..Len(ConstantTable) |->
                       Variable(ConstantTable[k].name, ConstantTable[k].value, 1)],
     history |-> <<>>, history_index |-> 0, history_count |-> 0]

\* add_history: the entry is written at history_index, which then wraps
add_history(cal, expr, result) ==
    LET e == [expression |-> SubSeq(expr, 1, Min(Len(expr), MAX_INPUT - 1)),
              result |-> result]
        k == cal.history_index + 1
    IN  [cal EXCEPT !.history = IF k <= Len(@) THEN [@ EXCEPT ![k] = e] ELSE Append(@, e),
                     !.history_index = (@ + 1) % HISTORY_SIZE,
                     !.history_count = IF @ < HISTORY_SIZE THEN @ + 1 ELSE @]

is_constant(name) == \E k \in 1..Len(ConstantTable) : ConstantTable[k].name = name

get_constant_value(name) ==
    LET hits == {k \in 1..Len(ConstantTable) : ConstantTable[k].name = name}
    IN  IF hits = {} THEN 0 ELSE ConstantTable[CHOOSE k \in hits : TRUE].value

\* function_table: name, min_args, max_args
L_abs == Str(<<"a", "b", "s">>)

function_table ==
    << [name |-> Str(<<"s", "i", "n">>), min_args |-> 1, max_args |-> 1],
       [name |-> Str(<<"c", "o", "s">>), min_args |-> 1, max_args |-> 1],
       [name |-> Str(<<"t", "a", "n">>), min_args |-> 1, max_args |-> 1],
       [name |-> Str(<<"a", "s", "i", "n">>), min_args |-> 1, max_args |-> 1],
       [name |-> Str(<<"a", "c", "o", "s">>), min_args |-> 1, max_args |-> 1],
       [name |-> Str(<<"a", "t", "a", "n">>), min_args |-> 1, max_args |-> 1],
       [name |-> Str(<<"a", "t", "a", "n", "2">>), min_args |-> 2, max_args |-> 2],
       [name |-> Str(<<"s", "i", "n", "h">>), min_args |-> 1, max_args |-> 1],
       [name |-> Str(<<"c", "o", "s", "h">>), min_args |-> 1, max_args |-> 1],
       [name |-> Str(<<"t", "a", "n", "h">>), min_args |-> 1, max_args |-> 1],
       [name |-> Str(<<"a", "s", "i", "n", "h">>), min_args |-> 1, max_args |-> 1],
       [name |-> Str(<<"a", "c", "o", "s", "h">>), min_args |-> 1, max_args |-> 1],
       [name |-> Str(<<"a", "t", "a", "n", "h">>), min_args |-> 1, max_args |-> 1],
       [name |-> Str(<<"l", "o", "g">>), min_args |-> 1, max_args |-> 1],
       [name |-> Str(<<"l", "o", "g", "1", "0">>), min_args |-> 1, max_args |-> 1],
       [name |-> Str(<<"l", "o", "g", "2">>), min_args |-> 1, max_args |-> 1],
       [name |-> Str(<<"e", "x", "p">>), min_args |-> 1, max_args |-> 1],
       [name |-> Str(<<"s", "q", "r", "t">>), min_args |-> 1, max_args |-> 1],
       [name |-> Str(<<"c", "b", "r", "t">>), min_args |-> 1, max_args |-> 1],
       [name |-> Str(<<"p", "o", "w">>), min_args |-> 2, max_args |-> 2],
       [name |-> Str(<<"a", "b", "s">>), min_args |-> 1, max_args |-> 1],
       [name |-> Str(<<"f", "l", "o", "o", "r">>), min_args |-> 1, max_args |-> 1],
       [name |-> Str(<<"c", "e", "i", "l">>), min_args |-> 1, max_args |-> 1],
       [name |-> Str(<<"r", "o", "u", "n", "d">>), min_args |-> 1, max_args |-> 1],
       [name |-> Str(<<"m", "i", "n">>), min_args |-> 1, max_args |-> 0],
       [name |-> Str(<<"m", "a", "x">>), min_args |-> 1, max_args |-> 0],
       [name |-> Str(<<"s", "u", "m">>), min_args |-> 1, max_args |-> 0],
       [name |-> Str(<<"m", "e", "a", "n">>), min_args |-> 1, max_args |-> 0],
       [name |-> Str(<<"m", "e", "d", "i", "a", "n">>), min_args |-> 1, max_args |-> 0],
       [name |-> Str(<<"f", "a", "c", "t", "o", "r", "i", "a", "l">>), min_args |-> 1, max_args |-> 1],
       [name |-> Str(<<"g", "c", "d">>), min_args |-> 2, max_args |-> 0],
       [name |-> Str(<<"l", "c", "m">>), min_args |-> 2, max_args |-> 0],
       [name |-> Str(<<"d", "e", "g", "2", "r", "a", "d">>), min_args |-> 1, max_args |-> 1],
       [name |-> Str(<<"r", "a", "d", "2", "d", "e", "g">>), min_args |-> 1, max_args |-> 1],
       [name |-> Str(<<"p", "e", "r", "m">>), min_args |-> 2, max_args |-> 2],
       [name |-> Str(<<"c", "o", "m", "b">>), min_args |-> 2, max_args |-> 2],
       [name |-> Str(<<"r", "a", "n", "d">>), min_args |-> 0, max_args |-> 2],
       [name |-> Str(<<"d", "e", "t">>), min_args |-> 1, max_args |-> 1],
       [name |-> Str(<<"t", "r", "a", "c", "e">>), min_args |-> 1, max_args |-> 1] >>

\* find_function: the index (from 1) of the first entry of that name, 0 for
\* NULL
find_function(name) ==
    LET hits == {k \in 1..Len(function_table) : function_table[k].name = name}
    IN  IF hits = {} THEN 0 ELSE CHOOSE k \in hits : \A j \in hits : k <= j

\* func_def->func(args, arg_count) for the function the lines call
func_abs(args) == IF args[1] < 0 THEN 0 - args[1] ELSE args[1]

\* The character at position p of the line, 0 for the terminating NUL
CharAt(s, p) == IF p <= Len(s) THEN s[p] ELSE 0

\* The number branch of tokenize is taken at p
NumberAt(s, p) ==
    \/ isdigit(CharAt(s, p))
    \/ CharAt(s, p) = C_DOT /\ isdigit(CharAt(s, p + 1))
    \/ CharAt(s, p) = C_DASH
         /\ (isdigit(CharAt(s, p + 1)) \/ CharAt(s, p + 1) = C_DOT)

RECURSIVE DigitRun(_, _, _)
DigitRun(s, p, v) ==
    IF isdigit(CharAt(s, p)) THEN DigitRun(s, p + 1, 10 * v + (s[p] - C_D0))
    ELSE [end |-> p, value |-> v]

\* strtod(p, &end) on an optional '-' and decimal digits with no fraction and
\* no exponent after them; where no digit stands after the sign, nothing is
\* converted: the value is 0 and end is p
strtod(s, p) ==
    LET neg == CharAt(s, p) = C_DASH
        d == DigitRun(s, IF neg THEN p + 1 ELSE p, 0)
    IN  IF d.end = (IF neg THEN p + 1 ELSE p) THEN [end |-> p, value |-> 0]
        ELSE [end |-> d.end, value |-> IF neg THEN 0 - d.value ELSE d.value]

\* while ((isalnum(*p) || *p == '_') && i < 31) name[i++] = *p++;
RECURSIVE IdentRun(_, _, _)
IdentRun(s, p, name) ==
    IF (isalnum(CharAt(s, p)) \/ CharAt(s, p) = C_US) /\ Len(name) < NameBufSize - 1
    THEN IdentRun(s, p + 1, Append(name, s[p]))
    ELSE [end |-> p, name |-> name]

Token(type, value, name) == [type |-> type, value |-> value, name |-> name]

\* The one-character tokens
PunctType(c) ==
    CASE c \in {C_PLUS, C_DASH, C_STAR, C_SLASH, Ch("^"), Ch("!"), C_PCT} -> "TOK_OPERATOR"
      [] c = C_LP -> "TOK_LPAREN"
      [] c = C_RP -> "TOK_RPAREN"
      [] c = C_COMMA -> "TOK_COMMA"
      [] c = C_EQ -> "TOK_EQUAL"
      [] OTHER -> "none"

\* What one iteration of the while loop of tokenize finds at p
TokKind(s, p) ==
    LET c == CharAt(s, p)
    IN  IF isspace(c) THEN "space"
        ELSE IF NumberAt(s, p) THEN "number"
        ELSE IF isalpha(c) \/ c = C_US THEN "name"
        ELSE IF PunctType(c) # "none" THEN "punct"
        ELSE "unknown"

\* One iteration of the while loop of tokenize that ends in continue
TokStep(s, t) ==
    LET c == CharAt(s, t.p)
        k == TokKind(s, t.p)
    IN  CASE k = "space" -> [t EXCEPT !.p = @ + 1]
          [] k = "number" ->
                LET n == strtod(s, t.p)
                IN  [p |-> n.end,
                     tokens |-> Append(t.tokens, Token("TOK_NUMBER", n.value, <<>>))]
          [] k = "name" ->
                LET n == IdentRun(s, t.p, <<>>)
                    next == SkipSpace(s, n.end)
                IN  [p |-> n.end,
                     tokens |-> Append(t.tokens,
                                       Token(IF CharAt(s, next) = C_LP THEN "TOK_FUNCTION"
                                             ELSE "TOK_IDENTIFIER", 0, n.name))]
          [] k = "punct" ->
                [p |-> t.p + 1,
                 tokens |-> Append(t.tokens,
                                   Token(PunctType(c), 0,
                                         IF PunctType(c) = "TOK_OPERATOR" THEN <<c>>
                                         ELSE <<>>))]

\* while (*p && *token_count < MAX_TOKENS)
TokLoops(s, t) == t.p <= Len(s) /\ Len(t.tokens) < MAX_TOKENS

\* tokens[*token_count].type = TOK_EOF; *token_count += 1
TokEofStep(t) == [t EXCEPT !.tokens = Append(@, Token("TOK_EOF", 0, <<>>))]

\* tokenize run to its return on a line short enough for it: the tokens, or
\* the error of an unknown character
RECURSIVE TokRun(_, _)
TokRun(s, t) ==
    IF ~TokLoops(s, t) THEN [tokens |-> TokEofStep(t).tokens, error |-> "CALC_OK"]
    ELSE IF TokKind(s, t.p) = "unknown"
    THEN [tokens |-> <<>>, error |-> "CALC_ERROR_SYNTAX"]
    ELSE TokRun(s, TokStep(s, t))

tokenize(s) == TokRun(s, [p |-> 1, tokens |-> <<>>])

\* tokens[k], and the note that the parser has read slot k
Slot(ts, k) == ts[k + 1]
Reads(st, k) == [st EXCEPT !.hi = Max(@, k)]
Fails(st, e) == [st EXCEPT !.error = e, !.val = 0]
Skip(st) == [st EXCEPT !.pos = @ + 1]

\* a / b and fmod(a, b) for b # 0
Quot(a, b) == IF a % b = 0 THEN a \div b ELSE <<a, b>>
Fmod(a, b) ==
    LET aa == IF a < 0 THEN 0 - a ELSE a
        bb == IF b < 0 THEN 0 - b ELSE b
    IN  IF a < 0 THEN 0 - (aa % bb) ELSE aa % bb

\* calculate_function
calculate_function(st, name, args) ==
    LET k == find_function(name)
        f == function_table[k]
    IN  IF k = 0 THEN Fails(st, "CALC_ERROR_UNKNOWN_FUNCTION")
        ELSE IF Len(args) < f.min_args \/ (f.max_args > 0 /\ Len(args) > f.max_args)
        THEN Fails(st, "CALC_ERROR_ARG_COUNT")
        ELSE [st EXCEPT !.val = IF name = L_abs THEN func_abs(args) ELSE "double"]

RECURSIVE Parser(_, _, _, _)
\* The recursive-descent functions parse_factor, parse_term and
\* parse_expression, which call one another, as one operator: fn names the
\* function entered, or the loop of it that goes on ("TermLoop" and "ExprLoop"
\* are the while (1) loops of parse_term and parse_expression on the result
\* st0.val, "ArgLoop" is the argument loop of a function call with the
\* arguments parsed so far, which yields the parser state, the arguments and
\* whether parse_factor has returned from inside the loop).
Parser(fn, st0, ts, args) ==
    LET st == Reads(st0, st0.pos)
        token == Slot(ts, st.pos)
        nx == Skip(st)
        op == IF token.type = "TOK_OPERATOR" THEN token.name[1] ELSE 0
        \* ---- parse_factor ----
        Parsed(r) ==
            IF r.error # "CALC_OK"
            THEN [st |-> [r EXCEPT !.val = 0], args |-> args, ret |-> TRUE]
            ELSE Parser("ArgLoop", r, ts, Append(args, r.val))
        Called(l) ==
            LET e == Reads(l.st, l.st.pos)
            IN  IF l.ret THEN l.st
                ELSE IF Slot(ts, e.pos).type # "TOK_RPAREN"
                THEN Fails(e, "CALC_ERROR_SYNTAX")
                ELSE calculate_function(Skip(e), token.name, l.args)
        Closed(r) ==
            LET e == Reads(r, r.pos)
            IN  IF Slot(ts, e.pos).type # "TOK_RPAREN"
                THEN Fails(e, "CALC_ERROR_SYNTAX")
                ELSE Skip(e)
        Negated(r) == [r EXCEPT !.val = 0 - @]
        \* ---- parse_term ----
        Factor(r) ==
            IF r.error # "CALC_OK" THEN [r EXCEPT !.val = 0]
            ELSE Parser("TermLoop", r, ts, <<>>)
        Times(r) ==
            IF r.error # "CALC_OK" THEN [r EXCEPT !.val = 0]
            ELSE Parser("TermLoop", [r EXCEPT !.val = st.val * @], ts, <<>>)
        Over(r) ==
            IF r.error # "CALC_OK" THEN [r EXCEPT !.val = 0]
            ELSE IF r.val = 0 THEN Fails(r, "CALC_ERROR_DIV_ZERO")
            ELSE Parser("TermLoop",
                        [r EXCEPT !.val = IF op = C_SLASH THEN Quot(st.val, @)
                                          ELSE Fmod(st.val, @)], ts, <<>>)
        \* ---- parse_expression ----
        Term(r) ==
            IF r.error # "CALC_OK" THEN [r EXCEPT !.val = 0]
            ELSE Parser("ExprLoop", r, ts, <<>>)
        Added(r) ==
            IF r.error # "CALC_OK" THEN [r EXCEPT !.val = 0]
            ELSE Parser("ExprLoop",
                        [r EXCEPT !.val = IF op = C_PLUS THEN st.val + @
                                          ELSE st.val - @], ts, <<>>)
    IN  CASE fn = "parse_factor" ->
                CASE token.type = "TOK_NUMBER" -> [nx EXCEPT !.val = token.value]
                  [] token.type = "TOK_IDENTIFIER" ->
                        IF is_constant(token.name)
                        THEN [nx EXCEPT !.val = get_constant_value(token.name)]
                        ELSE LET var == find_variable(nx.calc, token.name)
                             IN  IF var # 0
                                 THEN [nx EXCEPT !.val = nx.calc.variables[var].real]
                                 ELSE Fails(nx, "CALC_ERROR_UNKNOWN_VARIABLE")
                  [] token.type = "TOK_FUNCTION" ->
                        LET a == Reads(nx, nx.pos)
                        IN  IF Slot(ts, a.pos).type # "TOK_LPAREN"
                            THEN Fails(a, "CALC_ERROR_SYNTAX")
                            ELSE Called(Parser("ArgLoop", Skip(a), ts, <<>>))
                  [] token.type = "TOK_LPAREN" ->
                        Closed(Parser("parse_expression", nx, ts, <<>>))
                  [] token.type = "TOK_OPERATOR" /\ token.name[1] = C_DASH ->
                        Negated(Parser("parse_factor", nx, ts, <<>>))
                  [] token.type = "TOK_OPERATOR" /\ token.name[1] = C_PLUS ->
                        Parser("parse_factor", nx, ts, <<>>)
                  [] OTHER -> Fails(st, "CALC_ERROR_SYNTAX")
          [] fn = "ArgLoop" ->
                IF token.type # "TOK_RPAREN" /\ Len(args) < MAX_FUNC_ARGS
                THEN IF Len(args) > 0 /\ token.type # "TOK_COMMA"
                     THEN [st |-> Fails(st, "CALC_ERROR_SYNTAX"), args |-> args,
                           ret |-> TRUE]
                     ELSE Parsed(Parser("parse_expression",
                                        IF Len(args) > 0 THEN nx ELSE st, ts, <<>>))
                ELSE [st |-> st, args |-> args, ret |-> FALSE]
          [] fn = "parse_term" -> Factor(Parser("parse_factor", st0, ts, <<>>))
          [] fn = "TermLoop" ->
                IF op = C_STAR THEN Times(Parser("parse_factor", nx, ts, <<>>))
                ELSE IF op = C_SLASH \/ op = C_PCT
                THEN Over(Parser("parse_factor", nx, ts, <<>>))
                ELSE st
          [] fn = "parse_expression" -> Term(Parser("parse_term", st0, ts, <<>>))
          [] fn = "ExprLoop" ->
                IF op = C_PLUS \/ op = C_DASH
                THEN Added(Parser("parse_term", nx, ts, <<>>))
                ELSE st

parse_factor(st, ts) == Parser("parse_factor", st, ts, <<>>)
parse_term(st, ts) == Parser("parse_term", st, ts, <<>>)
parse_expression(st, ts) == Parser("parse_expression", st, ts, <<>>)

L_const == Str(<<"c", "o", "n", "s", "t">>)

\* The end of parse_assignment: set_variable, or CALC_ERROR_MEMORY
Assign(st, var_name, is_const) ==
    LET Set(s) == IF s.ok = 0 THEN Fails(st, "CALC_ERROR_MEMORY")
                  ELSE [st EXCEPT !.calc = s.calc]
    IN  Set(set_variable(st.calc, var_name, st.val, is_const))

\* The branch of parse_assignment for the name "const": an identifier, '=' and
\* another expression
AssignConst(st0, ts) ==
    LET st == Reads(st0, st0.pos)
        e == Reads(Skip(st), st.pos + 1)
        Valued(r) == IF r.error # "CALC_OK" THEN [r EXCEPT !.val = 0]
                     ELSE Assign(r, Slot(ts, st.pos).name, 1)
    IN  IF Slot(ts, st.pos).type # "TOK_IDENTIFIER" THEN Fails(st, "CALC_ERROR_SYNTAX")
        ELSE IF Slot(ts, e.pos).type # "TOK_EQUAL" THEN Fails(e, "CALC_ERROR_SYNTAX")
        ELSE Valued(parse_expression(Skip(e), ts))

\* parse_assignment: an assignment or an expression
parse_assignment(st0, ts) ==
    LET st == Reads(st0, st0.pos)
        e == Reads(st, st.pos + 1)
        Valued(r) == IF r.error # "CALC_OK" THEN [r EXCEPT !.val = 0]
                     ELSE IF Slot(ts, st.pos).name = L_const THEN AssignConst(r, ts)
                     ELSE Assign(r, Slot(ts, st.pos).name, 0)
    IN  IF Slot(ts, st.pos).type # "TOK_IDENTIFIER" THEN parse_expression(st, ts)
        ELSE IF Slot(ts, e.pos + 1).type # "TOK_EQUAL" THEN parse_expression(e, ts)
        ELSE Valued(parse_expression([e EXCEPT !.pos = @ + 2], ts))

\* evaluate_expression from the call of parse_assignment on: the check that
\* the whole line was parsed
ParseLine(cal, ts) ==
    LET Checked(r) ==
            IF r.pos < Len(ts) - 1
            THEN IF Slot(ts, r.pos).type # "TOK_EOF"
                 THEN [Reads(r, r.pos) EXCEPT !.error = "CALC_ERROR_SYNTAX"]
                 ELSE Reads(r, r.pos)
            ELSE r
    IN  Checked(parse_assignment([pos |-> 0, error |-> "CALC_OK", calc |-> cal,
                                  hi |-> 0 - 1, val |-> 0], ts))

\* evaluate_expression and the branch of main after it: the calculator
\* afterwards, the error, the result, the highest token slot read
EvalLine(cal, line, ts) ==
    LET Done(r) == [calc |-> IF r.error = "CALC_OK"
                             THEN add_history(r.calc, line, r.val) ELSE r.calc,
                    error |-> r.error, val |-> r.val, hi |-> r.hi]
    IN  Done(ParseLine(cal, ts))

\* main's loop body on a line that tokenize returns from
RunLine(cal, line) ==
    LET toks == tokenize(line)
    IN  IF toks.error # "CALC_OK" THEN calc ELSE EvalLine(cal, line, toks.tokens).calc

handle_command(line) ==
    IF line \in { Str(<<"h", "e", "l", "p">>), Str(<<"f", "u", "n", "c", "t", "i", "o", "n", "s">>),
                  Str(<<"c", "o", "n", "s", "t", "a", "n", "t", "s">>),
                  Str(<<"v", "a", "r", "i", "a", "b", "l", "e", "s">>),
                  Str(<<"h", "i", "s", "t", "o", "r", "y">>), Str(<<"d", "e", "g">>),
                  Str(<<"r", "a", "d">>), Str(<<"c", "l", "e", "a", "r">>) }
       \/ StartsWith(line, 1, Str(<<"p", "r", "e", "c", "i", "s", "i", "o", "n">>))
    THEN 1
    ELSE IF line \in {Str(<<"e", "x", "i", "t">>), Str(<<"q", "u", "i", "t">>)} THEN 0 - 1
    ELSE 0

(***************************************************************************)
(* Variables a specification does not use stay at these values.            *)
(***************************************************************************)
SessionIdle ==
    /\ pc = "idle" /\ running = 0 /\ need_load = 0 /\ root = 0 /\ dom = <<>>
    /\ allocs = <<>> /\ top_pos = 0 /\ g_term_h = 0 /\ g_term_w = 0
    /\ g_pad_cur_y = 0 /\ ch = "none"

PreIdle == buf = <<>> /\ out = <<>> /\ ppc = "idle"

ParseIdle == html = <<>> /\ ps = <<>>

\* newpad(g_pad_h, g_pad_w), werase(g_pad): no cell drawn, the cursor at the
\* origin, no attribute on
EmptyPad == [w |-> <<>>, cy |-> 0, cx |-> 0, attr |-> {}]

RenderIdle == rin = <<>> /\ g_pad = EmptyPad /\ ypos = 0 /\ rpc = "idle"

AttrIdle == atext = <<>> /\ awritten = <<>> /\ attrs = <<>> /\ apc = "idle"

CalcIdle ==
    /\ cline = <<>> /\ tk = <<>> /\ calc = <<>> /\ cerr = "CALC_OK" /\ cread = 0 - 1
    /\ cpc = "idle"

RECURSIVE Concat(_)
Concat(ss) == IF ss = <<>> THEN <<>> ELSE Head(ss) \o Concat(Tail(ss))

\* All sequences over S of length at most n
SeqsUpTo(S, n) == UNION {[1..k -> S] : k \in 0..n}

(***************************************************************************)
(* The preprocessor applied to one buffer: sanitize_ascii_inplace on every *)
(* buffer of at most MaxBufLen of the bytes below, which stand on both     *)
(* sides of each comparison the function makes.                            *)
(***************************************************************************)
MaxBufLen == 2

SampleBytes == {1, TAB, NL, CR, 31, 32, Ch("A"), 126, 127, 128, 255}

SanitizeInit ==
    /\ SessionIdle /\ ParseIdle /\ RenderIdle /\ AttrIdle /\ CalcIdle
    /\ buf \in SeqsUpTo(SampleBytes, MaxBufLen)
    /\ out = <<>>
    /\ ppc = "in"

SanitizeCall ==
    /\ ppc = "in"
    /\ out' = sanitize_ascii_inplace(buf)
    /\ ppc' = "out"
    /\ UNCHANGED <<attrVars, calcVars, buf, sessionVars, parseVars, renderVars>>

SanitizeNext == SanitizeCall

SpecSanitize == SanitizeInit /\ [][SanitizeNext]_vars

IsPrintable(c) == c >= 32 /\ c <= 126

\* C6: after sanitize_ascii_inplace the buffer has the same length, every byte
\* is printable ASCII (32..126) or one of \n, \t, \r, every byte >= 128 has
\* become '?', every other control byte a space, and printable bytes are
\* unchanged.
C6_SanitizedIsPrintable ==
    ppc = "out" =>
        /\ Len(out) = Len(buf)
        /\ \A i \in 1..Len(buf) :
            /\ IsPrintable(out[i]) \/ out[i] \in {NL, TAB, CR}
            /\ buf[i] >= 128 => out[i] = C_QM
            /\ (~IsPrintable(buf[i]) /\ buf[i] < 128 /\ buf[i] \notin {NL, TAB, CR})
                   => out[i] = C_SP
            /\ IsPrintable(buf[i]) => out[i] = buf[i]

(***************************************************************************)
(* strip_script_style_meta on markup made of at most MaxStripToks of the   *)
(* pieces below.                                                           *)
(***************************************************************************)
MaxStripToks == 3

StripPieces ==
    { Str(<<"a">>),
      Str(<<"<", "b", ">">>),
      Str(<<"<", "s", "c", "r", "i", "p", "t", ">">>),
      Str(<<"<", "/", "s", "c", "r", "i", "p", "t", ">">>),
      Str(<<"<", "S", "t", "y", "l", "e", ">">>),
      Str(<<"<", "/", "S", "T", "Y", "L", "E", ">">>),
      Str(<<"<", "m", "e", "t", "a", " ", "x", ">">>) }

StripInit ==
    /\ SessionIdle /\ ParseIdle /\ RenderIdle /\ AttrIdle /\ CalcIdle
    /\ buf \in {Concat(t) : t \in SeqsUpTo(StripPieces, MaxStripToks)}
    /\ out = <<>>
    /\ ppc = "in"

StripCall ==
    /\ ppc = "in"
    /\ out' = strip_script_style_meta(buf)
    /\ ppc' = "out"
    /\ UNCHANGED <<attrVars, calcVars, buf, sessionVars, parseVars, renderVars>>

StripNext == StripCall

SpecStrip == StripInit /\ [][StripNext]_vars

\* An opening <script or <style stands at position p of s
OpensScript(s, p) == s[p] = C_LT /\ StartsWithCI(s, p + 1, L_script)
OpensStyle(s, p) == s[p] = C_LT /\ StartsWithCI(s, p + 1, L_style)

\* A tag the preprocessor treats specially starts at position p of s
SpecialAt(s, p) ==
    /\ s[p] = C_LT
    /\ \E l \in {L_script, L_cscript, L_style, L_cstyle, L_meta, L_link} :
          StartsWithCI(s, p + 1, l)

\* p is the first special tag of s, an opening one whose end tag endlit follows
\* at e, and nothing special follows the end tag
SingleSpan(s, p, e, endlit) ==
    /\ \A q \in 1..(p - 1) : ~SpecialAt(s, q)
    /\ e = strcasestr(s, p, endlit)
    /\ e # 0
    /\ \A q \in (e + Len(endlit))..Len(s) : ~SpecialAt(s, q)

\* C7: for input with an opening <script or <style (any case) followed by its
\* </script> or </style>, the output is the input with the whole span from the
\* '<' of the opening tag through the '>' of the closing tag removed.
C7_ElisionInclusive ==
    ppc = "out" =>
        \A p \in 1..Len(buf) : \A e \in 1..Len(buf) :
            /\ (OpensScript(buf, p) /\ SingleSpan(buf, p, e, L_endscript))
                   => out = SubSeq(buf, 1, p - 1) \o Tail_(buf, e + Len(L_endscript))
            /\ (OpensStyle(buf, p) /\ SingleSpan(buf, p, e, L_endstyle))
                   => out = SubSeq(buf, 1, p - 1) \o Tail_(buf, e + Len(L_endstyle))

\* p is the first special tag of s and no end tag endlit follows it
Unterminated(s, p, endlit) ==
    /\ \A q \in 1..(p - 1) : ~SpecialAt(s, q)
    /\ strcasestr(s, p, endlit) = 0

\* C8: when a <script or <style opening tag has no matching closing tag, the
\* output is exactly the input text that precedes the opening tag, wherever
\* the opening tag stands, the last characters of the input included.
C8_UnterminatedTruncates ==
    ppc = "out" =>
        \A p \in 1..Len(buf) :
            /\ (OpensScript(buf, p) /\ Unterminated(buf, p, L_endscript))
                   => out = SubSeq(buf, 1, p - 1)
            /\ (OpensStyle(buf, p) /\ Unterminated(buf, p, L_endstyle))
                   => out = SubSeq(buf, 1, p - 1)

(***************************************************************************)
(* parse_html_tree, one iteration of its while loop per step, on markup    *)
(* made of at most MaxParseToks of the pieces below.                       *)
(***************************************************************************)
MaxParseToks == 3

\* A text run with a leading space, a run of two white-space characters, a
\* lone carriage return and a trailing newline
WsText == <<C_SP, Ch("a"), C_SP, TAB, Ch("b"), CR, Ch("c"), NL>>

ParsePieces ==
    { Str(<<"<", "p", ">">>),
      Str(<<"<", "/", "p", ">">>),
      Str(<<"<", "b", ">">>),
      Str(<<"<", "/", "b", ">">>),
      Str(<<"<", "s", "p", "a", "n", ">">>),
      Str(<<"<", "/", "s", "p", "a", "n", ">">>),
      Str(<<"<", "/", "d", "i", "v", ">">>),
      Str(<<"<", "b", "r", ">">>),
      Str(<<"<", "!", "-", "-", "c", "-", "-", ">">>),
      Str(<<"x">>),
      Str(<<"<", "i">>),
      Str(<<"<", "p", "r", "e", ">">>),
      Str(<<"<", "!", "-", "-">>),
      WsText }

\* A heading that is open when a closing tag comes: the closing tag of a
\* heading of the same or another level, closing tags of other elements whose
\* names start with h, and closing tags of other elements
HeadingOpens == {Str(<<"<", "h", "1", ">">>), Str(<<"<", "h", "6", ">">>)}

HeadingCloses ==
    { Str(<<"<", "/", "h", "1", ">">>),
      Str(<<"<", "/", "h", "3", ">">>),
      Str(<<"<", "/", "h", "t", "m", "l", ">">>),
      Str(<<"<", "/", "h", "e", "a", "d", "e", "r", ">">>),
      Str(<<"<", "/", "h", "r", ">">>),
      Str(<<"<", "/", "p", ">">>) }

HeadingDocs ==
    {o \o x \o c : o \in HeadingOpens,
                   x \in {Str(<<"x">>), Str(<<"<", "p", ">">>)},
                   c \in HeadingCloses}

ParseInputs ==
    {Concat(t) : t \in SeqsUpTo(ParsePieces, MaxParseToks)} \cup HeadingDocs

ParseInit ==
    /\ SessionIdle /\ PreIdle /\ RenderIdle /\ AttrIdle /\ CalcIdle
    /\ html \in ParseInputs
    /\ ps = ParseStart

ParseComment ==
    /\ ~ps.done /\ Look(html, ps.pos).kind = "comment"
    /\ ps' = StepComment(html, ps)
    /\ UNCHANGED <<attrVars, calcVars, html, sessionVars, preVars, renderVars>>

ParseClosing ==
    /\ ~ps.done /\ Look(html, ps.pos).kind = "close"
    /\ ps' = StepClose(html, ps)
    /\ UNCHANGED <<attrVars, calcVars, html, sessionVars, preVars, renderVars>>

ParseOpening ==
    /\ ~ps.done /\ Look(html, ps.pos).kind = "open"
    /\ ps' = StepOpen(html, ps)
    /\ UNCHANGED <<attrVars, calcVars, html, sessionVars, preVars, renderVars>>

ParseText ==
    /\ ~ps.done /\ Look(html, ps.pos).kind = "text"
    /\ ps' = StepText(html, ps)
    /\ UNCHANGED <<attrVars, calcVars, html, sessionVars, preVars, renderVars>>

ParseBreak ==
    /\ ~ps.done /\ Look(html, ps.pos).kind = "break"
    /\ ps' = StepBreak(html, ps)
    /\ UNCHANGED <<attrVars, calcVars, html, sessionVars, preVars, renderVars>>

ParseEnd ==
    /\ ~ps.done /\ Look(html, ps.pos).kind = "end"
    /\ ps' = StepEnd(html, ps)
    /\ UNCHANGED <<attrVars, calcVars, html, sessionVars, preVars, renderVars>>

ParseNext ==
    \/ ParseComment
    \/ ParseClosing
    \/ ParseOpening
    \/ ParseText
    \/ ParseBreak
    \/ ParseEnd

SpecParse == ParseInit /\ [][ParseNext]_vars

\* The open nodes above the root that accept the closing tag name
Compatible(st, tag) ==
    {i \in 2..Len(st.stack) : CloseMatches(st.nodes[st.stack[i]].type, tag)}

SetMax(S) == CHOOSE x \in S : \A y \in S : y <= x

\* C9: on a closing tag, if some open node's type is compatible with the name,
\* the stack is popped down to and including the nearest such node and no
\* further; if none is, the stack is left exactly as it was; in both cases no
\* node is added to or removed from the tree.
C9_ClosingTagRecovery ==
    [][ (~ps.done /\ Look(html, ps.pos).kind = "close") =>
            LET open == Compatible(ps, Look(html, ps.pos).tag)
            IN  /\ ps'.nodes = ps.nodes
                /\ open # {} => ps'.stack = SubSeq(ps.stack, 1, SetMax(open) - 1)
                /\ open = {} => ps'.stack = ps.stack ]_vars

\* A closing tag has popped two nodes: the nearest compatible node stood below
\* an open node that is not compatible.
C9_Witness ==
    ps.last = "close" /\ ps.matched = 1 /\ ps.pushes = 2 /\ Len(ps.stack) = 1

\* Names of the elements that take no closing tag
VoidNames ==
    { Str(<<"b", "r">>), Str(<<"h", "r">>), Str(<<"i", "m", "g">>),
      Str(<<"i", "n", "p", "u", "t">>), Str(<<"b", "u", "t", "t", "o", "n">>) }

\* h from position p on consists of text and of tags <name>, </name>, every
\* container tag closed by its own closing tag, properly nested in the open
\* names.
RECURSIVE ProperlyNested(_, _, _)
ProperlyNested(h, p, open) ==
    IF p > Len(h) THEN open = <<>>
    ELSE IF h[p] # C_LT THEN ProperlyNested(h, p + 1, open)
    ELSE LET gt == strchr(h, p + 1, C_GT)
             inside == SubSeq(h, p + 1, gt - 1)
             name == IF inside # <<>> /\ inside[1] = C_SLASH THEN Tail(inside) ELSE inside
         IN  IF gt = 0 \/ name = <<>> \/ \E k \in 1..Len(name) : ~isalnum(name[k])
             THEN FALSE
             ELSE IF inside[1] = C_SLASH
             THEN /\ open # <<>>
                  /\ open[Len(open)] = name
                  /\ ProperlyNested(h, gt + 1, SubSeq(open, 1, Len(open) - 1))
             ELSE IF name \in VoidNames THEN ProperlyNested(h, gt + 1, open)
             ELSE ProperlyNested(h, gt + 1, Append(open, name))

WellFormed(h) == ProperlyNested(h, 1, <<>>)

\* C10: for every well-formed input the number of nodes pushed on the stack
\* equals the number of closing tags that matched and popped a node, and the
\* stack holds only the synthetic root when the end of input is reached.
C10_PushCloseBalance ==
    (ps.done /\ WellFormed(html)) =>
        /\ ps.pushes = ps.matched
        /\ ps.stack = <<1>>

\* The node reached from k by following parent back-references n times
RECURSIVE Up(_, _, _)
Up(nodes, k, n) ==
    IF n = 0 \/ k = 0 THEN k ELSE Up(nodes, nodes[k].parent, n - 1)

\* How often child k occurs in the child sequence of node p
Occurs(nodes, p, k) ==
    Cardinality({j \in 1..Len(nodes[p].children) : nodes[p].children[j] = k})

\* Nodes are numbered in the order node_create made them, and each is
\* appended to its parent right after it is made: insertion order is
\* ascending order.
InInsertionOrder(kids) ==
    \A i, j \in 1..Len(kids) : i < j => kids[i] < kids[j]

\* C11: after every step of parsing, the structure rooted at the synthetic
\* container is a tree: no cycles (every node reaches the root by parent
\* back-references), every node but the root has exactly one parent, occurs
\* exactly once in that parent's child sequence and in no other, its
\* back-reference names that parent, and children are in insertion order.
C11_TreeShape ==
    LET nodes == ps.nodes
        N == Len(nodes)
    IN  /\ nodes[1].parent = 0
        /\ \A p \in 1..N : Occurs(nodes, p, 1) = 0
        /\ \A k \in 2..N :
              /\ nodes[k].parent \in 1..N
              /\ \A p \in 1..N :
                    Occurs(nodes, p, k) = IF p = nodes[k].parent THEN 1 ELSE 0
              /\ \E n \in 1..N : Up(nodes, k, n) = 1
        /\ \A p \in 1..N : InInsertionOrder(nodes[p].children)

\* The parse has ended with a tree of two levels below the root, the root
\* holding two children.
C11_Witness ==
    /\ ps.done
    /\ Len(ps.nodes[1].children) = 2
    /\ \E k \in 2..Len(ps.nodes) : ps.nodes[k].parent # 1

\* The text run read by the text branch at st.pos
ChunkAt(h, st) ==
    LET lt == strchr(h, st.pos, C_LT)
    IN  SubSeq(h, st.pos, (IF lt = 0 THEN Len(h) + 1 ELSE lt) - 1)

\* s with every maximal run of white space replaced by one space
RECURSIVE RunsToSpace(_, _)
RunsToSpace(s, i) ==
    IF i > Len(s) THEN <<>>
    ELSE IF isspace(s[i])
    THEN (IF i > 1 /\ isspace(s[i - 1]) THEN <<>> ELSE <<C_SP>>) \o RunsToSpace(s, i + 1)
    ELSE <<s[i]>> \o RunsToSpace(s, i + 1)

\* No newline, no tab, no two consecutive spaces
Collapsed(t) ==
    /\ \A i \in 1..Len(t) : t[i] # NL /\ t[i] # TAB
    /\ \A i \in 1..Len(t) - 1 : ~(t[i] = C_SP /\ t[i + 1] = C_SP)

\* The text node a text step has just appended (0 if it appended none)
NewText(st, st2) ==
    IF Len(st2.nodes) > Len(st.nodes) THEN Len(st2.nodes) ELSE 0

\* C12: for every text run whose parent is not Preformatted/Code the stored
\* text has no newline or tab and no two consecutive spaces, each run of
\* white space of the source having become exactly one space, and collapse
\* is idempotent.
C12_WhitespaceCollapse ==
    [][ (~ps.done /\ Look(html, ps.pos).kind = "text"
           /\ ps.nodes[ps.stack[Len(ps.stack)]].type \notin {"NODE_PRE", "NODE_CODE"})
        => LET chunk == ChunkAt(html, ps)
               k == NewText(ps, ps')
           IN  /\ collapse(collapse(chunk)) = collapse(chunk)
               /\ k # 0
               /\ Collapsed(ps'.nodes[k].text)
               /\ ps'.nodes[k].text = RunsToSpace(chunk, 1) ]_vars

\* C13: every text run read while a Preformatted or Code element is open
\* (on the stack, at the top or below other open elements) is stored in its
\* text node verbatim.
C13_VerbatimPreformatted ==
    [][ (~ps.done /\ Look(html, ps.pos).kind = "text"
           /\ \E i \in 1..Len(ps.stack) :
                 ps.nodes[ps.stack[i]].type \in {"NODE_PRE", "NODE_CODE"})
        => LET k == NewText(ps, ps')
           IN  k # 0 /\ ps'.nodes[k].text = ChunkAt(html, ps) ]_vars

\* h has "<!--" at position p and no "-->" after it
UnterminatedComment(h, p) ==
    /\ h[p] = C_LT
    /\ StartsWith(h, p + 1, L_comment)
    /\ strstr(h, p + 4, L_endcomment) = 0

\* C19: at a "<!--" with no later "-->" the tree builder stops and returns
\* the tree built from the text before it, whether or not a '>' follows.
C19_UnterminatedComment ==
    [][ (~ps.done /\ ps.pos <= Len(html) /\ UnterminatedComment(html, ps.pos))
        => (ps'.done /\ ps'.nodes = ps.nodes) ]_vars

\* The names the else-if chain of the opening-tag branch recognises
Recognised(tag) ==
    \/ \E k \in 1..Len(OpenTagTable) : OpenTagTable[k].name = tag
    \/ Len(tag) >= 2 /\ tag[1] = C_LH /\ isdigit(tag[2])

\* C20: on every opening tag the new node becomes the last child of the node
\* on top of the stack before the tag; the stack is unchanged for a void
\* element (br, hr, img, input, button) and grows by exactly that node
\* otherwise; an unrecognised name makes a transparent GenericContainer that
\* is pushed like any other container.
C20_OpeningTagStackEffect ==
    [][ (~ps.done /\ Look(html, ps.pos).kind = "open")
        => LET tag == Look(html, ps.pos).tag
               top == ps.stack[Len(ps.stack)]
               new == Len(ps.nodes) + 1
           IN  /\ Len(ps'.nodes) = new
               /\ ps'.nodes[new].parent = top
               /\ ps'.nodes[new].children = <<>>
               /\ ps'.nodes[top].children = Append(ps.nodes[top].children, new)
               /\ \A k \in 1..Len(ps.nodes) : k # top => ps'.nodes[k] = ps.nodes[k]
               /\ ps'.stack = IF tag \in VoidNames THEN ps.stack
                              ELSE Append(ps.stack, new)
               /\ ~Recognised(tag) =>
                     /\ ps'.nodes[new].type = "NODE_DIV"
                     /\ is_transparent(ps'.nodes[new].type)
                     /\ ps'.stack[Len(ps'.stack)] = new ]_vars

\* An unrecognised tag has been pushed below a void element that was not:
\* the stack holds the root and the container, whose child the leaf is.
C20_Witness ==
    /\ ps.last = "open"
    /\ Len(ps.nodes) = 3
    /\ ps.nodes[3].type = "NODE_BR"
    /\ ps.nodes[2].type = "NODE_DIV"
    /\ ps.stack = <<1, 2>>
    /\ ps.nodes[2].children = <<3>>

(***************************************************************************)
(* The renderer.  Rendering threads one cursor *y through the tree and     *)
(* draws on the pad g_pad.  The pad is modelled by the calls made on it:   *)
(* w is the sequence of cells addressed, each with its row, its column,    *)
(* its character and the attributes in force; (cy, cx) is the pad's        *)
(* cursor, which the calls without "mv" draw at, and attr the attributes   *)
(* wattron has switched on.  A cell drawn twice shows the later            *)
(* character.  A call that addresses a cell outside the pad (a column from *)
(* g_term_w on, a row from PAD_LINES on) is recorded with the cell it      *)
(* addresses; what curses then does (carry the text on to the next row,    *)
(* refuse the call) is not modelled.  rs is the state of one               *)
(* render_document run: the cursor row y, the nodes (the OrderedList case  *)
(* writes list_number), the pad, wild (what a read past the end of a row's *)
(* cell array finds there) and fault (the run has dereferenced a wild      *)
(* pointer that was no string).  W is g_term_w.                            *)
(***************************************************************************)
PAD_LINES == 20000
WordBufSize == 1024

C_BAR == Ch("|")
C_LB == Ch("[")
C_RB == Ch("]")

\* What a read past the end of a heap block can find where a char* is
\* expected: NULL, a pointer to some string (of up to MaxJunkLen characters)
\* or a pointer that cannot be read.
MaxJunkLen == 2
WildReads ==
    {[kind |-> "null", s |-> <<>>], [kind |-> "fault", s |-> <<>>]}
        \cup {[kind |-> "text", s |-> [i \in 1..k |-> C_QM]] : k \in 0..MaxJunkLen}


Pairs == {"PAIR1", "PAIR2", "PAIR3", "PAIR4", "PAIR5"}

\* wattron(g_pad, A): a colour pair replaces the pair in force
wattron(pad, A) ==
    [pad EXCEPT !.attr = (IF A \cap Pairs # {} THEN @ \ Pairs ELSE @) \cup A]

\* wattroff(g_pad, A): a colour pair in A switches the pair in force off
wattroff(pad, A) ==
    [pad EXCEPT !.attr = (IF A \cap Pairs # {} THEN @ \ Pairs ELSE @) \ A]

\* wmove(g_pad, y, x)
wmove(pad, y, x) == [pad EXCEPT !.cy = y, !.cx = x]

\* waddch(g_pad, c)
waddch(pad, c) ==
    [pad EXCEPT !.w = Append(@, [y |-> pad.cy, x |-> pad.cx, c |-> c, a |-> pad.attr]),
                !.cx = @ + 1]

\* waddch(g_pad, c) n times over: the cells from the cursor on, one after another
waddchN(pad, c, n) ==
    IF n <= 0 THEN pad
    ELSE [pad EXCEPT
             !.w = @ \o [k \in 1..n |->
                            [y |-> pad.cy, x |-> pad.cx + (k - 1), c |-> c, a |-> pad.attr]],
             !.cx = @ + n]

\* waddstr(g_pad, s) from the i-th character of s on: waddch of each in turn
waddstr(pad, s, i) ==
    IF i > Len(s) THEN pad
    ELSE [pad EXCEPT
             !.w = @ \o [k \in 1..(Len(s) - i + 1) |->
                            [y |-> pad.cy, x |-> pad.cx + (k - 1), c |-> s[i + k - 1],
                             a |-> pad.attr]],
             !.cx = @ + (Len(s) - i + 1)]

\* mvwaddch(g_pad, y, x, c)
mvwaddch(pad, y, x, c) == waddch(wmove(pad, y, x), c)

\* mvwaddstr, mvwaddnstr with the characters to draw, and mvwprintw with the
\* formatted text
mvwaddstr(pad, y, x, s) == waddstr(wmove(pad, y, x), s, 1)

\* The same call made on the pad of rs
Draw(rs, x, s) == [rs EXCEPT !.pad = mvwaddstr(@, rs.y, x, s)]

Bump(rs, k) == [rs EXCEPT !.y = @ + k]

\* if(curx + 1 >= g_term_w) { (*y)++; curx = indent; }
\* else { mvwaddch(g_pad, *y, curx, ' '); curx++; }
\* The value holds rs and curx after it.
WrapSpace(rs, curx, indent, W) ==
    IF curx + 1 >= W
    THEN [rs |-> Bump(rs, 1), curx |-> indent]
    ELSE [rs |-> [rs EXCEPT !.pad = mvwaddch(@, rs.y, curx, C_SP)], curx |-> curx + 1]

\* The attributes render_wrapped_text switches on around a word
WordAttrs(is_dim, is_bold, color_pair) ==
    (IF color_pair = 1 THEN {"PAIR1"} ELSE {})
        \cup (IF is_bold THEN {"A_BOLD"} ELSE {})
        \cup (IF is_dim THEN {"A_DIM"} ELSE {})

\* A completed word: the wrap test, then the word drawn with its attributes.
\* The value holds rs and curx after it.
WrapWord(rs, curx, word, indent, A, W) ==
    LET wraps == curx + Len(word) >= W
        r1 == IF wraps THEN Bump(rs, 1) ELSE rs
        x0 == IF wraps THEN indent ELSE curx
    IN  [rs |-> [r1 EXCEPT !.pad = wattroff(mvwaddstr(wattron(@, A), r1.y, x0, word), A)],
         curx |-> x0 + Len(word)]

\* render_wrapped_text: the loop over i = 0..len (position len+1 reads the
\* terminating NUL), with the cursor column curx and the word gathered so far
RECURSIVE WrapLoop(_, _, _, _, _, _, _, _)
WrapLoop(rs, txt, i, curx, word, indent, A, W) ==
    IF i > Len(txt) + 1 THEN Bump(rs, 1)
    ELSE LET isEnd == i = Len(txt) + 1
             isSp == ~isEnd /\ txt[i] = C_SP
         IN  IF isSp \/ isEnd
             THEN LET a == IF Len(word) > 0
                           THEN WrapWord(rs, curx, word, indent, A, W)
                           ELSE [rs |-> rs, curx |-> curx]
                      b == IF isSp THEN WrapSpace(a.rs, a.curx, indent, W) ELSE a
                  IN  WrapLoop(b.rs, txt, i + 1, b.curx, <<>>, indent, A, W)
             ELSE WrapLoop(rs, txt, i + 1, curx,
                           IF Len(word) + 1 < WordBufSize THEN Append(word, txt[i]) ELSE word,
                           indent, A, W)

render_wrapped_text(rs, indent, txt, is_dim, is_bold, color_pair, W) ==
    WrapLoop(rs, txt, 1, indent, <<>>, indent, WordAttrs(is_dim, is_bold, color_pair), W)

\* The tokens strtok(dup, "\n") yields: the maximal runs without a newline
RECURSIVE StrtokLines(_, _, _)
StrtokLines(text, i, line) ==
    IF i > Len(text) THEN (IF line = <<>> THEN <<>> ELSE <<line>>)
    ELSE IF text[i] = NL
    THEN (IF line = <<>> THEN <<>> ELSE <<line>>) \o StrtokLines(text, i + 1, <<>>)
    ELSE StrtokLines(text, i + 1, Append(line, text[i]))

\* "+", boxw times '-', "+" on row *y, and (*y)++
BoxBorder(rs, boxw) ==
    Bump([rs EXCEPT !.pad = waddch(waddchN(mvwaddstr(@, rs.y, 0, <<C_PLUS>>),
                                           C_DASH, boxw), C_PLUS)], 1)

\* One line of a code block: "| ", the line cut or padded to boxw, " |"
BoxLine(rs, ln, boxw) ==
    LET p1 == mvwaddstr(rs.pad, rs.y, 0, <<C_BAR, C_SP>>)
        p2 == IF Len(ln) > boxw
              THEN mvwaddstr(p1, rs.y, 2, SubSeq(ln, 1, boxw))
              ELSE waddchN(mvwaddstr(p1, rs.y, 2, ln), C_SP, boxw - Len(ln))
    IN  Bump([rs EXCEPT !.pad = waddch(waddch(p2, C_SP), C_BAR)], 1)

RECURSIVE BoxLines(_, _, _, _)
BoxLines(rs, lines, i, boxw) ==
    IF i > Len(lines) THEN rs ELSE BoxLines(BoxLine(rs, lines[i], boxw), lines, i + 1, boxw)

\* render_code_block: the top border, one row per line, the bottom border
render_code_block(rs, text, W) ==
    LET boxw == IF W - 4 < 10 THEN 10 ELSE W - 4
    IN  BoxBorder(BoxLines(BoxBorder(rs, boxw), StrtokLines(text, 1, <<>>), 1, boxw), boxw)

\* The text children of node n, in order
TextKids(nodes, n) ==
    SelectSeq(nodes[n].children, LAMBDA c : nodes[c].type = "NODE_TEXT")

\* the texts of kids appended one after another (NODE_PRE)
RECURSIVE JoinRaw(_, _, _)
JoinRaw(nodes, kids, i) ==
    IF i > Len(kids) THEN <<>> ELSE nodes[kids[i]].text \o JoinRaw(nodes, kids, i + 1)

\* the texts of kids joined by '\n' (NODE_CODE)
RECURSIVE JoinLines(_, _, _)
JoinLines(nodes, kids, i) ==
    IF i > Len(kids) THEN <<>>
    ELSE (IF i > 1 THEN <<NL>> ELSE <<>>) \o nodes[kids[i]].text
             \o JoinLines(nodes, kids, i + 1)

\* if(bl) buf[bl++] = ' '; strcpy(buf+bl, text): the texts of kids from i on
\* appended to acc, a space before each but the first
RECURSIVE JoinSp(_, _, _, _)
JoinSp(nodes, kids, i, acc) ==
    IF i > Len(kids) THEN acc
    ELSE JoinSp(nodes, kids, i + 1,
                acc \o (IF acc # <<>> THEN <<C_SP>> ELSE <<>>) \o nodes[kids[i]].text)

\* The TD and TH children of row node r, in order
CellKids(nodes, r) ==
    SelectSeq(nodes[r].children, LAMBDA c : nodes[c].type \in {"NODE_TD", "NODE_TH"})

\* The first pass of render_table_node: cells, one sequence of joined cell
\* texts for each NODE_TR child that has at least one TD or TH child
TableCells(nodes, table) ==
    LET trs == SelectSeq(nodes[table].children,
                         LAMBDA r : nodes[r].type = "NODE_TR" /\ CellKids(nodes, r) # <<>>)
    IN  [k \in 1..Len(trs) |->
            LET cs == CellKids(nodes, trs[k])
            IN  [j \in 1..Len(cs) |-> JoinSp(nodes, TextKids(nodes, cs[j]), 1, <<>>)]]

\* cols: the largest cell count of a row
TableCols(cells) ==
    IF cells = <<>> THEN 0 ELSE SetMax({Len(cells[r]) : r \in 1..Len(cells)})

\* cells[r][c] (c from 1): the cell's text, the NULL that calloc(ccount+1)
\* left after the last cell, or, past that terminator, whatever lies behind
\* the row's array
CellRead(cells, r, c, wild) ==
    IF c <= Len(cells[r]) THEN [kind |-> "text", s |-> cells[r][c]]
    ELSE IF c = Len(cells[r]) + 1 THEN [kind |-> "null", s |-> <<>>]
    ELSE wild

\* colw[c]: mw = 1, raised to the longest strlen of the column
ColW(cells, c, wild) ==
    SetMax({1} \cup {Len(CellRead(cells, r, c, wild).s) : r \in 1..Len(cells)})

\* '+' and for each column colw[c]+2 times '-' and a '+', on row *y; (*y)++
RECURSIVE TableBorderCols(_, _, _, _, _, _)
TableBorderCols(pad, y, cells, c, cols, wild) ==
    IF c > cols THEN pad
    ELSE TableBorderCols(waddch(waddchN(pad, C_DASH, ColW(cells, c, wild) + 2), C_PLUS),
                         y, cells, c + 1, cols, wild)

TableBorder(rs, cells, cols, wild) ==
    Bump([rs EXCEPT !.pad = TableBorderCols(mvwaddch(@, rs.y, 0, C_PLUS), rs.y,
                                            cells, 1, cols, wild)], 1)

\* One cell row: '|' and for each column ' ', the text padded to colw[c]
\* ("%-*s") or colw[c] spaces, ' ' and '|'
RECURSIVE TableRowCols(_, _, _, _, _, _)
TableRowCols(pad, cells, r, c, cols, wild) ==
    IF c > cols THEN pad
    ELSE LET v == CellRead(cells, r, c, wild)
             cw == ColW(cells, c, wild)
             p1 == waddch(pad, C_SP)
             p2 == IF v.kind = "text"
                   THEN waddchN(waddstr(p1, v.s, 1), C_SP, cw - Len(v.s))
                   ELSE waddchN(p1, C_SP, cw)
         IN  TableRowCols(waddch(waddch(p2, C_SP), C_BAR), cells, r, c + 1, cols, wild)

RECURSIVE TableBody(_, _, _, _, _)
TableBody(rs, cells, r, cols, wild) ==
    IF r > Len(cells) THEN rs
    ELSE LET row == Bump([rs EXCEPT !.pad = TableRowCols(mvwaddch(@, rs.y, 0, C_BAR),
                                                         cells, r, 1, cols, wild)], 1)
         IN  TableBody(TableBorder(row, cells, cols, wild), cells, r + 1, cols, wild)

\* Some row is read past the terminator of its cell array
ReadsPastRow(cells) ==
    \E r \in 1..Len(cells) : TableCols(cells) > Len(cells[r]) + 1

\* render_table_node: nothing without rows, else a border and two rows per row
render_table_node(rs, table) ==
    LET cells == TableCells(rs.nodes, table)
        cols == TableCols(cells)
    IN  IF Len(cells) = 0 THEN rs
        ELSE IF ReadsPastRow(cells) /\ rs.wild.kind = "fault"
        THEN [rs EXCEPT !.fault = TRUE]
        ELSE TableBody(TableBorder(rs, cells, cols, rs.wild), cells, 1, cols, rs.wild)

\* snprintf(tmp, sizeof(tmp), "%d. ", n) for n > 0
RECURSIVE DecStr(_)
DecStr(n) == (IF n < 10 THEN <<>> ELSE DecStr(n \div 10)) \o <<C_D0 + (n % 10)>>
Marker(n) == DecStr(n) \o <<Ch("."), C_SP>>

\* n has a first child and it is a text node
FirstIsText(nodes, n) ==
    Len(nodes[n].children) > 0 /\ nodes[nodes[n].children[1]].type = "NODE_TEXT"

\* The summary a NODE_DETAILS renders: its last NODE_SUMMARY child, 0 for NULL
SummaryOf(nodes, n) ==
    LET ks == {k \in 1..Len(nodes[n].children) :
                  nodes[nodes[n].children[k]].type = "NODE_SUMMARY"}
    IN  IF ks = {} THEN 0 ELSE nodes[n].children[SetMax(ks)]

\* The literals the renderer prints.  The label of a definition list is two
\* words of 7 and 8 characters outside ASCII; each is one cell, drawn here
\* as '?'.  The nodes
\* of the model carry no attributes, so an image, an input, a textarea and a
\* button print the text they print without src, alt, name and value.
L_quoteEdge == Str(<<" ", "|">>)
L_quoteBar == Str(<<" ", "|", " ">>)
L_bullet == Str(<<"*", " ">>)
L_dl == [i \in 1..16 |-> IF i = 8 THEN C_SP ELSE C_QM]
L_img == Str(<<"[", "i", "m", "g", ":", " ", "(", "n", "o", "-", "s", "r", "c", ")", "]", " ">>)
L_nolink == Str(<<"[", "l", "i", "n", "k", "]">>)
L_form == Str(<<"F", "o", "r", "m", ":">>)
L_input == Str(<<"f", "i", "e", "l", "d", ":", " ", "_", "_", "_", "_", "_", "_", "_", "_", "_", "_">>)
L_textarea == Str(<<"t", "e", "x", "t", "a", "r", "e", "a", ":">>)
L_button == Str(<<"[", " ", "B", "u", "t", "t", "o", "n", " ", "]">>)
L_expanded == Str(<<"(", "v", ")">>)
L_folded == Str(<<"(", ">", ")">>)

\* for(ly = from; ly < to; ly++) for(cx = indent; cx < g_term_w; cx++)
\*     mvwaddch(g_pad, ly, cx, '-')
RECURSIVE StrikeRows(_, _, _, _, _)
StrikeRows(pad, ly, to, indent, W) ==
    IF ly >= to THEN pad
    ELSE StrikeRows(IF indent < W THEN waddchN(wmove(pad, ly, indent), C_DASH, W - indent)
                    ELSE pad,
                    ly + 1, to, indent, W)

\* for(ly = from; ly < to; ly++) mvwprintw(g_pad, ly, indent, " | ")
RECURSIVE QuoteRows(_, _, _, _)
QuoteRows(pad, ly, to, indent) ==
    IF ly >= to THEN pad
    ELSE QuoteRows(mvwaddstr(pad, ly, indent, L_quoteBar), ly + 1, to, indent)

RECURSIVE render_node_recursive(_, _, _, _), RenderKids(_, _, _, _, _),
          RenderItems(_, _, _, _, _), RenderStyled(_, _, _, _, _, _, _),
          RenderQuoted(_, _, _, _, _)

\* for(i...) render_node_recursive(n->children[i], y, indent), from child i on
RenderKids(rs, kids, i, indent, W) ==
    IF i > Len(kids) THEN rs
    ELSE RenderKids(render_node_recursive(rs, kids[i], indent, W), kids, i + 1, indent, W)

\* The NODE_OL loop: li->list_number = i+1, then render li
RenderItems(rs, kids, i, indent, W) ==
    IF i > Len(kids) THEN rs
    ELSE RenderItems(
             render_node_recursive([rs EXCEPT !.nodes[kids[i]].list_number = i],
                                   kids[i], indent, W),
             kids, i + 1, indent, W)

\* The loops of NODE_BOLD, NODE_ITALIC, NODE_MARK and NODE_UNDER: a text child
\* is drawn by render_wrapped_text with the flags word of the case, between
\* wattron and wattroff of around; any other child is rendered recursively.
RenderStyled(rs, kids, i, indent, word, around, W) ==
    IF i > Len(kids) THEN rs
    ELSE LET k == kids[i]
             r == IF rs.nodes[k].type = "NODE_TEXT"
                  THEN LET on == [rs EXCEPT !.pad = wattron(@, around)]
                           t == render_wrapped_text(on, indent, rs.nodes[k].text,
                                                    word.dim, word.bold, word.pair, W)
                       IN  [t EXCEPT !.pad = wattroff(@, around)]
                  ELSE render_node_recursive(rs, k, indent, W)
         IN  RenderStyled(r, kids, i + 1, indent, word, around, W)

\* The loop of NODE_BLOCKQUOTE: each child rendered at indent+3, then " | "
\* on every row it took
RenderQuoted(rs, kids, i, indent, W) ==
    IF i > Len(kids) THEN rs
    ELSE LET r == render_node_recursive(rs, kids[i], indent + 3, W)
         IN  RenderQuoted([r EXCEPT !.pad = QuoteRows(@, rs.y, r.y, indent)],
                          kids, i + 1, indent, W)

render_node_recursive(rs, n, indent, W) ==
    LET nd == rs.nodes[n]
        t == nd.type
        kids == nd.children
        first == rs.nodes[kids[1]].text
    IN  CASE rs.fault -> rs
          [] is_transparent(t) -> RenderKids(rs, kids, 1, indent, W)
          [] t = "NODE_TEXT" ->
                render_wrapped_text(rs, indent, nd.text, TRUE, FALSE, 0, W)
          [] t = "NODE_BR" -> Bump(rs, 1)
          [] t = "NODE_HR" ->
                Bump([rs EXCEPT !.pad = IF W > 0 THEN waddchN(wmove(@, rs.y, 0), C_DASH, W)
                                        ELSE @], 1)
          [] t = "NODE_PARAGRAPH" -> Bump(RenderKids(rs, kids, 1, indent, W), 1)
          [] t = "NODE_HEADER" ->
                LET b == JoinSp(rs.nodes, TextKids(rs.nodes, n), 1, <<>>)
                    A == {"A_BOLD", "PAIR1"}
                IN  IF Len(b) > 0
                    THEN Bump([rs EXCEPT !.pad =
                                  wattroff(mvwaddstr(wattron(@, A), rs.y, indent, b), A)], 1)
                    ELSE rs
          [] t = "NODE_PRE" ->
                render_code_block(rs, JoinRaw(rs.nodes, TextKids(rs.nodes, n), 1), W)
          [] t = "NODE_CODE" ->
                render_code_block(rs, JoinLines(rs.nodes, TextKids(rs.nodes, n), 1), W)
          [] t = "NODE_BOLD" ->
                RenderStyled(rs, kids, 1, indent,
                             [dim |-> FALSE, bold |-> TRUE, pair |-> 1], {}, W)
          [] t = "NODE_ITALIC" ->
                RenderStyled(rs, kids, 1, indent,
                             [dim |-> TRUE, bold |-> FALSE, pair |-> 0], {}, W)
          [] t = "NODE_MARK" ->
                RenderStyled(rs, kids, 1, indent,
                             [dim |-> FALSE, bold |-> FALSE, pair |-> 0], {"PAIR4"}, W)
          [] t = "NODE_UNDER" ->
                RenderStyled(rs, kids, 1, indent,
                             [dim |-> FALSE, bold |-> FALSE, pair |-> 0], {"A_UNDERLINE"}, W)
          [] t = "NODE_STRIKE" ->
                LET r == RenderKids(rs, kids, 1, indent, W)
                IN  [r EXCEPT !.pad = StrikeRows(@, rs.y, r.y, indent, W)]
          [] t = "NODE_BLOCKQUOTE" ->
                LET r == RenderQuoted(Bump(Draw(rs, indent, L_quoteEdge), 1),
                                      kids, 1, indent, W)
                IN  Bump(Draw(r, indent, L_quoteEdge), 1)
          [] t = "NODE_UL" -> Bump(RenderKids(rs, kids, 1, indent, W), 1)
          [] t = "NODE_OL" -> Bump(RenderItems(rs, kids, 1, indent, W), 1)
          [] t = "NODE_LI" ->
                IF nd.list_number > 0
                THEN LET tmp == Marker(nd.list_number)
                         r == Draw(rs, indent, tmp)
                     IN  IF FirstIsText(rs.nodes, n)
                         THEN render_wrapped_text(r, indent + Len(tmp), first,
                                                  TRUE, FALSE, 0, W)
                         ELSE RenderKids(Bump(r, 1), kids, 1, indent + 4, W)
                ELSE LET r == [rs EXCEPT !.pad =
                                  wattroff(mvwaddstr(wattron(@, {"PAIR3"}), rs.y, indent,
                                                     L_bullet), {"PAIR3"})]
                     IN  IF FirstIsText(rs.nodes, n)
                         THEN render_wrapped_text(r, indent + 2, first, TRUE, FALSE, 0, W)
                         ELSE RenderKids(Bump(r, 1), kids, 1, indent + 2, W)
          [] t = "NODE_DL" ->
                Bump(RenderKids(Bump(Draw(rs, indent, L_dl), 1), kids, 1, indent, W), 1)
          [] t = "NODE_DT" ->
                IF FirstIsText(rs.nodes, n) THEN Bump(Draw(rs, indent, first), 1) ELSE rs
          [] t = "NODE_DD" ->
                IF FirstIsText(rs.nodes, n) THEN Bump(Draw(rs, indent + 4, first), 1) ELSE rs
          [] t = "NODE_FIGCAP" ->
                IF FirstIsText(rs.nodes, n)
                THEN Bump([rs EXCEPT !.pad =
                              wattroff(mvwaddstr(wattron(@, {"A_STANDOUT"}), rs.y, indent,
                                                 first), {"A_STANDOUT"})], 1)
                ELSE rs
          [] t = "NODE_IMG" ->
                Bump([rs EXCEPT !.pad =
                         wattroff(mvwaddstr(wattron(@, {"PAIR5"}), rs.y, indent, L_img),
                                  {"PAIR5"})], 1)
          [] t = "NODE_DETAILS" ->
                LET summary == SummaryOf(rs.nodes, n)
                IN  IF summary # 0 /\ FirstIsText(rs.nodes, summary)
                    THEN LET line == <<C_GT, C_SP>>
                                         \o rs.nodes[rs.nodes[summary].children[1]].text
                                         \o <<C_SP>>
                                         \o (IF nd.expanded # 0 THEN L_expanded ELSE L_folded)
                             r == Bump(Draw(rs, indent, line), 1)
                         IN  IF nd.expanded # 0
                             THEN RenderKids(r, SelectSeq(kids, LAMBDA c : c # summary),
                                             1, indent + 2, W)
                             ELSE r
                    ELSE RenderKids(rs, kids, 1, indent, W)
          [] t = "NODE_TABLE" -> render_table_node(rs, n)
          [] t = "NODE_A" ->
                LET b == JoinSp(rs.nodes, TextKids(rs.nodes, n), 1, <<>>)
                    A == {"PAIR2", "A_UNDERLINE"}
                IN  Bump([rs EXCEPT !.pad =
                             wattroff(mvwaddstr(wattron(@, A), rs.y, indent,
                                                IF Len(b) = 0 THEN L_nolink ELSE b), A)], 1)
          [] t = "NODE_FORM" ->
                RenderKids(Bump(Draw(rs, indent, L_form), 1), kids, 1, indent + 2, W)
          [] t = "NODE_INPUT" -> Bump(Draw(rs, indent, L_input), 1)
          [] t = "NODE_TEXTAREA" ->
                LET r == Bump(Draw(rs, indent, L_textarea), 1)
                IN  Bump([r EXCEPT !.pad =
                             waddch(waddchN(mvwaddstr(@, r.y, indent, <<C_LB>>),
                                            C_US, W - indent - 4), C_RB)], 1)
          [] t = "NODE_BUTTON" -> Bump(Draw(rs, indent, L_button), 1)
          [] OTHER -> RenderKids(rs, kids, 1, indent, W)

\* render_document's loop over the root's children from child i on, left once
\* y >= g_pad_h - 50
RECURSIVE RenderTop(_, _, _, _)
RenderTop(rs, kids, i, W) ==
    IF i > Len(kids) THEN rs
    ELSE LET After(r) == IF r.y >= PAD_LINES - 50 THEN r ELSE RenderTop(r, kids, i + 1, W)
         IN  After(render_node_recursive(rs, kids[i], 0, W))

\* werase(g_pad); int y = 0
RenderStart(nodes, wild) ==
    [y |-> 0, nodes |-> nodes, pad |-> EmptyPad, wild |-> wild, fault |-> FALSE]

\* render_document(root): the nodes and the pad as rendering leaves them and
\* g_pad_cur_y; fault if the run did not get that far
render_document(nodes, W, wild) ==
    LET Result(r) ==
            [nodes |-> r.nodes, g_pad_cur_y |-> r.y + 4, pad |-> r.pad, fault |-> r.fault]
    IN  Result(RenderTop(RenderStart(nodes, wild), nodes[1].children, 1, W))

(***************************************************************************)
(* One call of the renderer: render_wrapped_text on a text as the tree     *)
(* builder stores it outside Preformatted/Code, or render_document on the  *)
(* tree of a page.  The pages are the two examples, paragraphs of inline   *)
(* runs, tables of up to MaxTableRows rows of up to MaxRowCells cells, and  *)
(* tall pages: one <div> holding more than PAD_LINES <br> in nested <div>, *)
(* followed by some <hr>.                                                  *)
(***************************************************************************)
MaxWrapLen == 5
NarrowW == 3
ExampleW == 80
MaxParaRuns == 3
MaxTableRows == 2
MaxRowCells == 4
MaxCellLen == 2

RenderWidths == {NarrowW, ExampleW}
WrapIndents == {0, 2, 3}
WrapTexts ==
    {t \in SeqsUpTo({Ch("a"), C_SP}, MaxWrapLen) : t # <<>> /\ collapse(t) = t}

\* The flags the callers of render_wrapped_text pass: is_dim, is_bold, color_pair
WordCalls ==
    { [dim |-> TRUE, bold |-> FALSE, pair |-> 0],
      [dim |-> FALSE, bold |-> TRUE, pair |-> 1],
      [dim |-> FALSE, bold |-> FALSE, pair |-> 0] }

Example15 ==
    Str(<<"<", "p", ">", "T", "h", "i", "s", " ", "i", "s", " ",
          "<", "s", "t", "r", "o", "n", "g", ">", "b", "o", "l", "d",
          "<", "/", "s", "t", "r", "o", "n", "g", ">", " ", "t", "e", "x", "t", ".",
          "<", "/", "p", ">">>)


\* The runs of a paragraph: text, and text inside an inline element
ParaRuns ==
    { Str(<<"a", " ", "b">>),
      Str(<<" ", "e">>),
      Str(<<"<", "s", "t", "r", "o", "n", "g", ">", "c", "<", "/", "s", "t", "r", "o", "n", "g", ">">>),
      Str(<<"<", "e", "m", ">", "d", "<", "/", "e", "m", ">">>) }
ParaMarkup(runs) == Str(<<"<", "p", ">">>) \o Concat(runs) \o Str(<<"<", "/", "p", ">">>)

\* A table is given by the texts of the cells of its rows.  TableTree is the
\* tree parse_html_tree builds from "<table>", for each row "<tr>", for each
\* cell "<td>", its text and "</td>", then "</tr>", and "</table>": node 1 the
\* root, node 2 the table, the nodes numbered as they are created; a cell
\* without text has no child.
RowSize(row) == 1 + Len(row) + Cardinality({c \in 1..Len(row) : row[c] # <<>>})
RECURSIVE RowBase(_, _)
RowBase(rows, r) == IF r = 1 THEN 3 ELSE RowBase(rows, r - 1) + RowSize(rows[r - 1])
CellBase(rows, r, c) ==
    RowBase(rows, r) + c + Cardinality({k \in 1..(c - 1) : rows[r][k] # <<>>})
CellNodes(rows, r, c) ==
    LET td == CellBase(rows, r, c)
    IN  IF rows[r][c] = <<>>
        THEN <<[node_create("NODE_TD") EXCEPT !.parent = RowBase(rows, r)]>>
        ELSE <<[node_create("NODE_TD") EXCEPT !.parent = RowBase(rows, r),
                                              !.children = <<td + 1>>],
               [node_create("NODE_TEXT") EXCEPT !.parent = td, !.text = rows[r][c]]>>
RowNodes(rows, r) ==
    <<[node_create("NODE_TR") EXCEPT
          !.parent = 2,
          !.children = [c \in 1..Len(rows[r]) |-> CellBase(rows, r, c)]]>>
        \o Concat([c \in 1..Len(rows[r]) |-> CellNodes(rows, r, c)])
TableTree(rows) ==
    <<[node_create("NODE_DIV") EXCEPT !.children = <<2>>],
      [node_create("NODE_TABLE") EXCEPT
          !.parent = 1,
          !.children = [r \in 1..Len(rows) |-> RowBase(rows, r)]]>>
        \o Concat([r \in 1..Len(rows) |-> RowNodes(rows, r)])

\* <table><tr><th>A</th><th>BB</th></tr><tr><td>1</td><td>22</td></tr></table>
Example17 ==
    Str(<<"<", "t", "a", "b", "l", "e", ">", "<", "t", "r", ">", "<", "t", "h", ">",
          "A", "<", "/", "t", "h", ">", "<", "t", "h", ">", "B", "B", "<", "/", "t",
          "h", ">", "<", "/", "t", "r", ">", "<", "t", "r", ">", "<", "t", "d", ">",
          "1", "<", "/", "t", "d", ">", "<", "t", "d", ">", "2", "2", "<", "/", "t",
          "d", ">", "<", "/", "t", "r", ">", "<", "/", "t", "a", "b", "l", "e", ">">>)

\* The texts of the cells of the example table
Example17Shape ==
    << <<Str(<<"A">>), Str(<<"B", "B">>)>>, <<Str(<<"1">>), Str(<<"2", "2">>)>> >>

\* Tables of up to MaxTableRows rows of up to MaxRowCells cells: the cell
\* counts are free, the text of cell c of row r is (r + c + v) % (MaxCellLen
\* + 1) times 'a' for an offset v
TableShape(lens, v) ==
    [r \in 1..Len(lens) |->
        [c \in 1..lens[r] |-> [i \in 1..((r + c + v) % (MaxCellLen + 1)) |-> Ch("a")]]]
TableShapes ==
    {TableShape(lens, v) : lens \in SeqsUpTo(0..MaxRowCells, MaxTableRows),
                           v \in 0..MaxCellLen}

\* A tall page: "<div>", then TallDepth levels of "<div>" two to a level
\* around "<br>" (a full binary tree of <div> with 2^TallDepth <br> leaves,
\* the least power of two that is no less than PAD_LINES), then tail times
\* "<hr>", all inside the first <div>.  Node 1 is the root and node 2 the
\* first <div>; the nodes of the binary tree are numbered level by level from
\* node 3 on (a node's number stands for its address, which no code reads),
\* the <hr> follow.
TallDepth == CHOOSE d \in 1..PAD_LINES : 2 ^ d >= PAD_LINES /\ 2 ^ (d - 1) < PAD_LINES

TallTree(tail) ==
    LET leaf == 2 ^ TallDepth
        body == 2 * leaf - 1
    IN  [k \in 1..(2 + body + tail) |->
            IF k = 1 THEN [node_create("NODE_DIV") EXCEPT !.children = <<2>>]
            ELSE IF k = 2
            THEN [node_create("NODE_DIV") EXCEPT
                     !.parent = 1,
                     !.children = <<3>> \o [h \in 1..tail |-> 2 + body + h]]
            ELSE IF k > 2 + body THEN [node_create("NODE_HR") EXCEPT !.parent = 2]
            ELSE LET j == k - 2
                     par == IF j = 1 THEN 2 ELSE (j \div 2) + 2
                 IN  IF j >= leaf THEN [node_create("NODE_BR") EXCEPT !.parent = par]
                     ELSE [node_create("NODE_DIV") EXCEPT
                              !.parent = par,
                              !.children = <<2 * j + 2, 2 * j + 3>>]]

\* Pages with a heading of one and of two text children above a paragraph
HeaderDocs ==
    { Str(<<"<", "h", "1", ">", "a", "b", "<", "/", "h", "1", ">", "<", "p",
            ">", "z", "<", "/", "p", ">">>),
      Str(<<"<", "h", "3", ">", "a", "<", "b", "r", ">", "b", "<", "/", "h",
            "3", ">", "<", "p", ">", "z", "<", "/", "p", ">">>) }

\* Pages with a details element: with a summary that starts with text, with
\* none, and with one that starts with an element
DetailsDocs ==
    { Str(<<"<", "d", "e", "t", "a", "i", "l", "s", ">", "<", "s", "u", "m",
            "m", "a", "r", "y", ">", "s", "<", "/", "s", "u", "m", "m", "a",
            "r", "y", ">", "<", "p", ">", "x", "<", "/", "p", ">", "<", "/",
            "d", "e", "t", "a", "i", "l", "s", ">">>),
      Str(<<"<", "d", "e", "t", "a", "i", "l", "s", ">", "<", "p", ">", "x",
            "<", "/", "p", ">", "<", "/", "d", "e", "t", "a", "i", "l", "s",
            ">">>),
      Str(<<"<", "d", "e", "t", "a", "i", "l", "s", ">", "<", "s", "u", "m",
            "m", "a", "r", "y", ">", "<", "e", "m", ">", "s", "<", "/", "e",
            "m", ">", "<", "/", "s", "u", "m", "m", "a", "r", "y", ">", "<",
            "p", ">", "x", "<", "/", "p", ">", "<", "/", "d", "e", "t", "a",
            "i", "l", "s", ">">>) }

\* Pages with a list of two items: the second item has a text after its first
\* child, or starts with a block element
ListBodies ==
    { Str(<<"<", "l", "i", ">", "a", "<", "/", "l", "i", ">", "<", "l", "i",
            ">", "b", "<", "b", "r", ">", "c", "<", "/", "l", "i", ">">>),
      Str(<<"<", "l", "i", ">", "a", "<", "/", "l", "i", ">", "<", "l", "i",
            ">", "<", "p", ">", "b", "<", "/", "p", ">", "c", "<", "/", "l",
            "i", ">">>) }

ListDocs ==
    {Str(<<"<", l, "l", ">">>) \o b \o Str(<<"<", "/", l, "l", ">">>) :
        l \in {"u", "o"}, b \in ListBodies}

TextCall(t, i) ==
    [fn |-> "render_wrapped_text", kind |-> "text", txt |-> t, indent |-> i,
     html |-> <<>>, shape |-> <<>>, tail |-> 0]
DocCall(k, h, shape, tail) ==
    [fn |-> "render_document", kind |-> k, txt |-> <<>>, indent |-> 0,
     html |-> h, shape |-> shape, tail |-> tail]

RenderInputs ==
    {TextCall(t, i) : t \in WrapTexts, i \in WrapIndents}
        \cup {DocCall("example15", Example15, <<>>, 0),
              DocCall("example17", Example17, Example17Shape, 0)}
        \cup {DocCall("para", ParaMarkup(r), <<>>, 0) : r \in SeqsUpTo(ParaRuns, MaxParaRuns)}
        \cup {DocCall("table", <<>>, s, 0) : s \in TableShapes}
        \cup {DocCall("tall", <<>>, <<>>, k) : k \in {0, 1}}
        \cup {DocCall("header", h, <<>>, 0) : h \in HeaderDocs}
        \cup {DocCall("details", h, <<>>, 0) : h \in DetailsDocs}
        \cup {DocCall("list", h, <<>>, 0) : h \in ListDocs}

\* The tree render_document is called on (sanitize_ascii_inplace and
\* strip_script_style_meta leave these pages as they are)
DocNodes(in) ==
    IF in.kind = "tall" THEN TallTree(in.tail)
    ELSE IF in.kind = "table" THEN TableTree(in.shape)
    ELSE parse_html_tree(in.html).nodes

RenderInit ==
    /\ PreIdle /\ ParseIdle /\ AttrIdle /\ CalcIdle
    /\ pc = "idle" /\ running = 0 /\ need_load = 0 /\ root = 0 /\ dom = <<>>
    /\ allocs = <<>> /\ top_pos = 0 /\ g_term_h = 0 /\ g_pad_cur_y = 0 /\ ch = "none"
    /\ g_term_w \in RenderWidths
    /\ rin \in RenderInputs
    /\ rin.kind = "tall" => g_term_w = NarrowW
    /\ g_pad = EmptyPad
    /\ ypos = 0
    /\ rpc = "call"

\* render_wrapped_text(&y, indent, txt, is_dim, is_bold, color_pair) with y = 0
RenderText ==
    /\ rpc = "call" /\ rin.fn = "render_wrapped_text"
    /\ \E f \in WordCalls, wild \in WildReads :
          LET r == render_wrapped_text(RenderStart(<<>>, wild), rin.indent, rin.txt,
                                       f.dim, f.bold, f.pair, g_term_w)
          IN  g_pad' = r.pad /\ ypos' = r.y
    /\ rpc' = "done"
    /\ UNCHANGED <<attrVars, calcVars, rin, sessionVars, preVars, parseVars>>

\* render_document(root) that returns
RenderDoc ==
    /\ rpc = "call" /\ rin.fn = "render_document"
    /\ \E wild \in WildReads :
          LET Returns(rd) ==
                  /\ ~rd.fault
                  /\ g_pad' = rd.pad
                  /\ g_pad_cur_y' = rd.g_pad_cur_y
                  /\ ypos' = rd.g_pad_cur_y - 4
          IN  Returns(render_document(DocNodes(rin), g_term_w, wild))
    /\ rpc' = "done"
    /\ UNCHANGED <<attrVars, calcVars, rin, pc, running, need_load, root, dom, allocs, top_pos, g_term_h,
                   g_term_w, ch, preVars, parseVars>>

\* render_document(root) that dies on a wild pointer: g_pad_cur_y is not set
RenderFault ==
    /\ rpc = "call" /\ rin.fn = "render_document"
    /\ \E wild \in WildReads :
          LET Dies(rd) == rd.fault /\ g_pad' = rd.pad
          IN  Dies(render_document(DocNodes(rin), g_term_w, wild))
    /\ rpc' = "fault"
    /\ UNCHANGED <<attrVars, calcVars, rin, ypos, sessionVars, preVars, parseVars>>

RenderNext ==
    \/ RenderText
    \/ RenderDoc
    \/ RenderFault

SpecRender == RenderInit /\ [][RenderNext]_vars

(***************************************************************************)
(* What the pad shows: of the writes to one cell the last one stands.      *)
(***************************************************************************)
PadRows(pad) == {pad.w[i].y : i \in DOMAIN pad.w}
WritesAt(pad, y, x) == {i \in DOMAIN pad.w : pad.w[i].y = y /\ pad.w[i].x = x}
LastAt(pad, y, x) == pad.w[SetMax(WritesAt(pad, y, x))]
RowWidth(pad, y) == SetMax({0} \cup {pad.w[i].x + 1 : i \in {k \in DOMAIN pad.w : pad.w[k].y = y}})
RowText(pad, y) ==
    [k \in 1..RowWidth(pad, y) |->
        IF WritesAt(pad, y, k - 1) = {} THEN C_SP ELSE LastAt(pad, y, k - 1).c]
BoldCols(pad, y) ==
    {x \in 0..(RowWidth(pad, y) - 1) :
        WritesAt(pad, y, x) # {} /\ "A_BOLD" \in LastAt(pad, y, x).a}

\* C14: for every text, every indent and every width W, no row written by
\* render_wrapped_text has a character at a column >= W, also when a single
\* word is longer than W - indent and when the cursor starts at the indent
\* column (the indent itself being a column of the pad).
C14_WordWrapWidthBound ==
    (rpc = "done" /\ rin.fn = "render_wrapped_text" /\ rin.indent < g_term_w) =>
        \A i \in DOMAIN g_pad.w : g_pad.w[i].x < g_term_w

L_example15 ==
    Str(<<"T", "h", "i", "s", " ", "i", "s", " ", "b", "o", "l", "d", " ",
          "t", "e", "x", "t", ".">>)

\* C15: <p>This is <strong>bold</strong> text.</p> at width 80 is drawn on a
\* single row whose text is "This is bold text.", in which exactly the word
\* "bold" is bold, followed by one blank separator row; and the text and
\* inline children of a paragraph that all fit in the width are drawn on one
\* row.
C15_InlineRunsShareLine ==
    /\ (rpc = "done" /\ rin.kind = "example15" /\ g_term_w = ExampleW) =>
          /\ PadRows(g_pad) = {0}
          /\ RowText(g_pad, 0) = L_example15
          /\ BoldCols(g_pad, 0) = 8..11
          /\ ypos = 2
    /\ (rpc = "done" /\ rin.kind = "para" /\ g_term_w = ExampleW) =>
          PadRows(g_pad) \subseteq {0}

\* The rows of a table that have a cell, as the first pass keeps them
CellRows(shape) == SelectSeq(shape, LAMBDA row : row # <<>>)

\* The longest text of column c over the rows that have such a cell, 1 at least
ColumnMax(rows, c) ==
    SetMax({1} \cup {Len(rows[r][c]) : r \in {q \in 1..Len(rows) : c <= Len(rows[q])}})

BorderOf(rows) ==
    <<C_PLUS>> \o Concat([c \in 1..TableCols(rows) |->
                             [i \in 1..(ColumnMax(rows, c) + 2) |-> C_DASH] \o <<C_PLUS>>])

Bars(s) == Cardinality({k \in 1..Len(s) : s[k] = C_BAR})

\* C16: for every table, the drawn width of column c (the '-' between two '+'
\* of a border row) is the longest text of a cell of that column plus 2, and
\* every cell row has exactly columns+1 '|', columns being the largest cell
\* count of a row; also when some rows have fewer cells than others.
C16_TableColumnGeometry ==
    (rin # <<>> /\ rin.kind \in {"table", "example17"} /\ rpc # "call"
        /\ CellRows(rin.shape) # <<>>) =>
        LET rows == CellRows(rin.shape)
        IN  /\ rpc = "done"
            /\ \A r \in 0..Len(rows) : RowText(g_pad, 2 * r) = BorderOf(rows)
            /\ \A r \in 1..Len(rows) :
                  Bars(RowText(g_pad, 2 * r - 1)) = TableCols(rows) + 1

L_border17 == Str(<<"+", "-", "-", "-", "+", "-", "-", "-", "-", "+">>)

\* C17: a table with R rows that each hold at least one cell is drawn on
\* exactly the 2R+1 rows from the cursor row on and the cursor row advances
\* by 2R+1; the example table has column widths 3 and 4 and 5 rows.
C17_TableRowCount ==
    /\ (rin # <<>> /\ rin.kind \in {"table", "example17"} /\ rpc # "call"
           /\ rin.shape # <<>> /\ \A r \in 1..Len(rin.shape) : rin.shape[r] # <<>>) =>
          /\ rpc = "done"
          /\ PadRows(g_pad) = 0..(2 * Len(rin.shape))
          /\ ypos = 2 * Len(rin.shape) + 1
    /\ (rin # <<>> /\ rin.kind = "example17" /\ rpc # "call") =>
          /\ RowText(g_pad, 0) = L_border17
          /\ PadRows(g_pad) = 0..4

\* C18: for every document tree, no write goes to a pad row at or beyond
\* PAD_LINES and the content height handed to the viewport (g_pad_cur_y) is at
\* most PAD_LINES, also when a single top-level element has very many
\* descendants.
C18_CanvasHeightCap ==
    (rpc = "done" /\ rin.fn = "render_document") =>
        /\ \A i \in DOMAIN g_pad.w : g_pad.w[i].y < PAD_LINES
        /\ g_pad_cur_y <= PAD_LINES

(***************************************************************************)
(* node_free_recursive(n): freed counts, per node of the tree, the free()  *)
(* calls made on it.                                                       *)
(***************************************************************************)
RECURSIVE node_free_recursive(_, _, _), FreeKids(_, _, _, _)
FreeKids(nodes, kids, i, freed) ==
    IF i > Len(kids) THEN freed
    ELSE FreeKids(nodes, kids, i + 1, node_free_recursive(nodes, kids[i], freed))

node_free_recursive(nodes, n, freed) ==
    [FreeKids(nodes, nodes[n].children, 1, freed) EXCEPT ![n] = @ + 1]

(***************************************************************************)
(* main: the session.  fetch_url returns one of Pages or NULL, getmaxyx a  *)
(* height in 1..MaxTermH and a width in TermWidths, getch a key.           *)
(***************************************************************************)
MaxTermH == 3
WideTermW == 20
MaxLoads == 2
MaxTop == 10

TermHeights == 1..MaxTermH
TermWidths == {4, WideTermW}

Pages ==
    { <<>>,
      Str(<<"<", "p", ">", "a", "a", " ", "b", "b", "b", " ", "c", "<", "/", "p", ">">>),
      Str(<<"a", "<", "b", "r", ">", "<", "b", "r", ">", "<", "b", "r", ">", "<", "b", ">", "b">>),
      <<200, 1>> \o Str(<<"<", "s", "c", "r", "i", "p", "t", ">", "q", "<", "/", "s", "c",
                          "r", "i", "p", "t", ">", "<", "o", "l", ">", "<", "l", "i", ">",
                          "x", "<", "l", "i", ">", "<", "h", "r", ">">>),
      Str(<<"<", "!", "-", "-", " ", ">">>) }

\* sanitize, strip and parse of each page fetch_url can return
PageTree ==
    [raw \in Pages |->
        parse_html_tree(strip_script_style_meta(sanitize_ascii_inplace(raw)))]

\* A plausible slip: root = NULL without node_free_recursive(root)
FreeOldLeaks(a, r, d) == a

\* if(root) { node_free_recursive(root); root = NULL; }: the free counts after it
FreeOld(a, r, d) ==
    IF r # 0 THEN [a EXCEPT ![r] = node_free_recursive(d, 1, @)] ELSE a

\* A plausible slip: the scroll offset survives the load
ScrollKept(old) == old

\* top_pos = 0 at the end of a load
ScrollAfterLoad(old) == 0

Init ==
    /\ PreIdle /\ ParseIdle /\ RenderIdle /\ AttrIdle /\ CalcIdle
    /\ pc = "loop"
    /\ running = 1
    /\ need_load = 1
    /\ root = 0
    /\ dom = <<>>
    /\ allocs = <<>>
    /\ top_pos = 0
    /\ g_term_h \in TermHeights
    /\ g_term_w \in TermWidths
    /\ g_pad_cur_y = 0
    /\ ch = "none"

\* if(need_load) { ... } with a fetch that succeeds and a parse that returns
Load ==
    /\ pc = "loop" /\ running = 1 /\ need_load = 1
    /\ Len(allocs) < MaxLoads
    /\ \E raw \in Pages, h \in TermHeights, w \in TermWidths, wild \in WildReads :
          LET t == PageTree[raw]
              freed == FreeOld(allocs, root, dom)
              Drawn(rd) ==
                  /\ ~rd.fault
                  /\ dom' = rd.nodes
                  /\ g_pad_cur_y' = rd.g_pad_cur_y
                  /\ g_pad' = rd.pad
          IN  /\ t.last # "spin"
              /\ Drawn(render_document(t.nodes, w, wild))
              /\ allocs' = Append(freed, [i \in 1..Len(t.nodes) |-> 0])
              /\ root' = Len(freed) + 1
              /\ g_term_h' = h
              /\ g_term_w' = w
              /\ top_pos' = ScrollAfterLoad(top_pos)
              /\ need_load' = 0
              /\ pc' = "ui"
    /\ UNCHANGED <<attrVars, calcVars, running, ch, preVars, parseVars, rin, ypos, rpc>>

\* if(need_load) { ... } with a fetch that succeeds and a parse that never
\* returns: the old tree is freed and main stays inside parse_html_tree
LoadSpin ==
    /\ pc = "loop" /\ running = 1 /\ need_load = 1
    /\ \E raw \in Pages :
          /\ PageTree[raw].last = "spin"
          /\ allocs' = FreeOld(allocs, root, dom)
          /\ root' = 0
          /\ dom' = <<>>
          /\ pc' = "hung"
    /\ UNCHANGED <<attrVars, calcVars, running, need_load, top_pos, g_term_h, g_term_w, g_pad_cur_y, ch,
                   preVars, parseVars, renderVars>>

\* if(need_load) { ... if(!raw) { endwin(); ...; return 1; } }
LoadFail ==
    /\ pc = "loop" /\ running = 1 /\ need_load = 1
    /\ allocs' = FreeOld(allocs, root, dom)
    /\ root' = 0
    /\ dom' = <<>>
    /\ pc' = "exit1"
    /\ UNCHANGED <<attrVars, calcVars, running, need_load, top_pos, g_term_h, g_term_w, g_pad_cur_y, ch,
                   preVars, parseVars, renderVars>>

\* ch == 'q' || ch == 'Q': running = 0; break, and while(running) is left
KeyQuit ==
    /\ pc = "ui"
    /\ ch' = "q"
    /\ running' = 0
    /\ pc' = "cleanup"
    /\ UNCHANGED <<attrVars, calcVars, need_load, root, dom, allocs, top_pos, g_term_h, g_term_w,
                   g_pad_cur_y, preVars, parseVars, renderVars>>

\* ch == 'r' || ch == 'R': need_load = 1; break
KeyReload ==
    /\ pc = "ui"
    /\ ch' = "r"
    /\ need_load' = 1
    /\ pc' = "loop"
    /\ UNCHANGED <<attrVars, calcVars, running, root, dom, allocs, top_pos, g_term_h, g_term_w,
                   g_pad_cur_y, preVars, parseVars, renderVars>>

\* KEY_UP: if(top_pos > 0) top_pos--
KeyUp ==
    /\ pc = "ui"
    /\ ch' = "KEY_UP"
    /\ top_pos' = IF top_pos > 0 THEN top_pos - 1 ELSE top_pos
    /\ UNCHANGED <<attrVars, calcVars, pc, running, need_load, root, dom, allocs, g_term_h, g_term_w,
                   g_pad_cur_y, preVars, parseVars, renderVars>>

\* KEY_DOWN: if(top_pos + g_term_h < g_pad_cur_y) top_pos++
KeyDown ==
    /\ pc = "ui"
    /\ ch' = "KEY_DOWN"
    /\ top_pos' = IF top_pos + g_term_h < g_pad_cur_y THEN top_pos + 1 ELSE top_pos
    /\ UNCHANGED <<attrVars, calcVars, pc, running, need_load, root, dom, allocs, g_term_h, g_term_w,
                   g_pad_cur_y, preVars, parseVars, renderVars>>

\* KEY_NPAGE: top_pos += g_term_h - 2; the two clamps
KeyNPage ==
    /\ pc = "ui"
    /\ ch' = "KEY_NPAGE"
    /\ LET t1 == top_pos + (g_term_h - 2)
           t2 == IF t1 + g_term_h > g_pad_cur_y THEN g_pad_cur_y - g_term_h ELSE t1
       IN  top_pos' = IF t2 < 0 THEN 0 ELSE t2
    /\ UNCHANGED <<attrVars, calcVars, pc, running, need_load, root, dom, allocs, g_term_h, g_term_w,
                   g_pad_cur_y, preVars, parseVars, renderVars>>

\* KEY_PPAGE: top_pos -= g_term_h - 2; if(top_pos < 0) top_pos = 0
KeyPPage ==
    /\ pc = "ui"
    /\ ch' = "KEY_PPAGE"
    /\ LET t1 == top_pos - (g_term_h - 2)
       IN  /\ t1 <= MaxTop
           /\ top_pos' = IF t1 < 0 THEN 0 ELSE t1
    /\ UNCHANGED <<attrVars, calcVars, pc, running, need_load, root, dom, allocs, g_term_h, g_term_w,
                   g_pad_cur_y, preVars, parseVars, renderVars>>

\* A plausible slip: a key that is not recognised falls into the reload branch.
KeyOtherReloads ==
    /\ pc = "ui"
    /\ ch' = "other"
    /\ need_load' = 1
    /\ pc' = "loop"
    /\ UNCHANGED <<attrVars, calcVars, running, root, dom, allocs, top_pos, g_term_h, g_term_w,
                   g_pad_cur_y, preVars, parseVars, renderVars>>

\* else { /* ignore other keys */ }
KeyOther ==
    /\ pc = "ui"
    /\ ch' = "other"
    /\ UNCHANGED <<attrVars, calcVars, pc, running, need_load, root, dom, allocs, top_pos, g_term_h,
                   g_term_w, g_pad_cur_y, preVars, parseVars, renderVars>>

\* cleanup: if(root) node_free_recursive(root); ...; return 0
Cleanup ==
    /\ pc = "cleanup"
    /\ allocs' = FreeOld(allocs, root, dom)
    /\ pc' = "exit0"
    /\ UNCHANGED <<attrVars, calcVars, running, need_load, root, dom, top_pos, g_term_h, g_term_w,
                   g_pad_cur_y, ch, preVars, parseVars, renderVars>>

Next ==
    \/ Load
    \/ LoadSpin
    \/ LoadFail
    \/ KeyQuit
    \/ KeyReload
    \/ KeyUp
    \/ KeyDown
    \/ KeyNPage
    \/ KeyPPage
    \/ KeyOther
    \/ Cleanup

Spec == Init /\ [][Next]_vars

\* The largest scroll offset: max(0, contentHeight - viewportHeight)
MaxOffset == Max(0, g_pad_cur_y - g_term_h)

Clamp(v) == Max(0, Min(v, MaxOffset))

\* C1: in every reachable state, for every terminal height and content height,
\* 0 <= top_pos <= max(0, g_pad_cur_y - g_term_h).
C1_ViewportInvariant == 0 <= top_pos /\ top_pos <= MaxOffset

\* C2: line-up and line-down move the offset by exactly 1 and page-up and
\* page-down by exactly g_term_h - 2 toward the requested direction, clamped to
\* [0, max(0, g_pad_cur_y - g_term_h)], and never in the opposite direction.
C2_ScrollTransitions ==
    [][ (pc = "ui" /\ pc' = "ui") =>
           /\ ch' = "KEY_UP" =>
                 top_pos' = Clamp(top_pos - 1) /\ top_pos' <= top_pos
           /\ ch' = "KEY_DOWN" =>
                 top_pos' = Clamp(top_pos + 1) /\ top_pos' >= top_pos
           /\ ch' = "KEY_PPAGE" =>
                 top_pos' = Clamp(top_pos - (g_term_h - 2)) /\ top_pos' <= top_pos
           /\ ch' = "KEY_NPAGE" =>
                 top_pos' = Clamp(top_pos + (g_term_h - 2)) /\ top_pos' >= top_pos ]_vars

\* C3: when a reload is followed by a successful fetch, the state in which the
\* input loop next waits for a key has scroll offset 0 and the content height
\* that rendering the freshly parsed tree produces, whatever the offset was.
C3_ReloadResets ==
    [][ (pc = "loop" /\ ch = "r" /\ pc' = "ui") =>
           /\ top_pos' = 0
           /\ \E raw \in Pages, wild \in WildReads :
                 /\ PageTree[raw].last # "spin"
                 /\ dom' = render_document(PageTree[raw].nodes, g_term_w', wild).nodes
                 /\ g_pad_cur_y' =
                        render_document(PageTree[raw].nodes, g_term_w', wild).g_pad_cur_y ]_vars

\* The input loop waits for a key after a reload that replaced the page by one
\* with another number of nodes.
C3_Witness ==
    /\ pc = "ui" /\ ch = "r" /\ Len(allocs) = 2 /\ top_pos = 0
    /\ Len(allocs[1]) # Len(allocs[2])

\* Tree k has been released: one free() of each of its nodes
Released(k) == \A i \in 1..Len(allocs[k]) : allocs[k][i] = 1

\* Tree k is live: none of its nodes has been freed
Live(k) == \A i \in 1..Len(allocs[k]) : allocs[k][i] = 0

\* C4: every tree built is recursively released exactly once (never twice,
\* never leaked at shutdown), a tree is released before the next tree is
\* built, and at most one tree is live at any time.
C4_TreeLifetime ==
    /\ \A k \in 1..Len(allocs) : Live(k) \/ Released(k)
    /\ \A k \in 1..Len(allocs) : Live(k) => (k = Len(allocs) /\ k = root)
    /\ pc \in {"exit0", "exit1", "hung"} => \A k \in 1..Len(allocs) : Released(k)

\* A session of two loads has ended by quit with both trees released.
C4_Witness ==
    pc = "exit0" /\ Len(allocs) = 2 /\ Released(1) /\ Released(2) /\ Len(allocs[2]) > 1

\* C5: a fetch failure during a reload (a page has been loaded before) is
\* passed back and does not end the session in the load step; only a fetch
\* failure on the initial load ends the session.
C5_ReloadFailureKeepsSession ==
    [][ (pc = "loop" /\ Len(allocs) >= 1) => pc' # "exit1" ]_vars

\* The names of the closing tags of headings
HeadingNames == {<<C_LH, d>> : d \in Ch("1")..Ch("6")}

\* C23: an open Header node is matched by a closing tag if and only if the
\* closing tag's name is one of h1..h6 (any level closes any level); no closing
\* tag with another name, such as </html>, </header> or </hr>, matches a Header
\* node and pops it from the stack.
C23_HeaderClosingClass ==
    [][ (~ps.done /\ Look(html, ps.pos).kind = "close") =>
            LET tag == Look(html, ps.pos).tag
                sp == Len(ps'.stack)
                popped == sp < Len(ps.stack)
                headers == {i \in 2..Len(ps.stack) :
                               ps.nodes[ps.stack[i]].type = "NODE_HEADER"}
            IN  /\ (popped /\ ps.nodes[ps.stack[sp + 1]].type = "NODE_HEADER")
                       => tag \in HeadingNames
                /\ (tag \in HeadingNames /\ headers # {})
                       => popped /\ ps.nodes[ps.stack[sp + 1]].type = "NODE_HEADER" ]_vars

\* The text s stands on row y of the pad from column x on
DrawnAt(pad, y, x, s) ==
    \A k \in 1..Len(s) :
        WritesAt(pad, y, x + k - 1) # {} /\ LastAt(pad, y, x + k - 1).c = s[k]

\* The text nodes below node n, n included
TextsUnder(nodes, n) ==
    {k \in 1..Len(nodes) :
        /\ nodes[k].type = "NODE_TEXT"
        /\ \E d \in 0..Len(nodes) : Up(nodes, k, d) = n}

\* C24: rendering a Header node writes the concatenation of its direct text
\* children in bold on one row at the current indent and then advances the
\* cursor row by exactly two, leaving one blank row: the node after the header
\* starts two rows below the header's row.
C24_HeaderLayout ==
    (rpc = "done" /\ rin.kind = "header") =>
        LET nodes == DocNodes(rin)
            hdr == nodes[1].children[1]
            para == nodes[1].children[2]
            title == JoinRaw(nodes, TextKids(nodes, hdr), 1)
        IN  /\ RowText(g_pad, 0) = title
            /\ BoldCols(g_pad, 0) = 0..(Len(title) - 1)
            /\ RowWidth(g_pad, 1) = 0
            /\ DrawnAt(g_pad, 2, 0, nodes[nodes[para].children[1]].text)

\* C25: while the expanded flag of a Details node is clear, no child other
\* than the summary contributes any row, whether or not the node has a
\* Summary child and whether or not that summary starts with text.
C25_DetailsVisibility ==
    (rpc = "done" /\ rin.kind = "details") =>
        LET nodes == DocNodes(rin)
            det == nodes[1].children[1]
            summary == SummaryOf(nodes, det)
            hidden == UNION {TextsUnder(nodes, c) :
                                c \in {nodes[det].children[i] :
                                          i \in 1..Len(nodes[det].children)} \ {summary}}
        IN  nodes[det].expanded = 0 =>
                \A k \in hidden : \A y \in PadRows(g_pad) : \A x \in 0..(g_term_w - 1) :
                    ~DrawnAt(g_pad, y, x, nodes[k].text)

\* C26: every child of an OrderedList is rendered with the marker "N. " of its
\* 1-based position and every item of an UnorderedList with a bullet marker;
\* the body text of an item and every other child of the item are rendered at
\* the indent plus the width of the marker, so no child of a list item is left
\* unrendered.
C26_ListItemLayout ==
    (rpc = "done" /\ rin.kind = "list" /\ g_term_w = ExampleW) =>
        LET nodes == DocNodes(rin)
            lst == nodes[1].children[1]
            items == nodes[lst].children
        IN  \A i \in 1..Len(items) :
                LET mk == IF nodes[lst].type = "NODE_OL" THEN Marker(i) ELSE L_bullet
                IN  \E y \in PadRows(g_pad) :
                        /\ DrawnAt(g_pad, y, 0, mk)
                        /\ \A k \in TextsUnder(nodes, items[i]) :
                               \E y2 \in PadRows(g_pad) :
                                   y2 >= y /\ DrawnAt(g_pad, y2, Len(mk), nodes[k].text)

\* Row r of a table as it is to be drawn: '|', then for each column a space,
\* the cell's text or nothing, blanks up to the column's width, a space and '|'
PaddedRow(rows, r) ==
    <<C_BAR>> \o
    Concat([c \in 1..TableCols(rows) |->
               LET s == IF c <= Len(rows[r]) THEN rows[r][c] ELSE <<>>
               IN  <<C_SP>> \o s
                       \o [i \in 1..(ColumnMax(rows, c) - Len(s)) |-> C_SP]
                       \o <<C_SP, C_BAR>>])

\* C28: when the rows of a table have different numbers of cells, the table
\* renderer never reads a row's cell array at an index beyond the entries
\* allocated for that row (its cell count plus one terminator), and each
\* missing cell is drawn as blank padding of the column's width.
C28_RaggedTableInBounds ==
    (rin # <<>> /\ rin.kind = "table" /\ rpc # "call"
        /\ CellRows(rin.shape) # <<>>) =>
        LET rows == CellRows(rin.shape)
        IN  /\ ~ReadsPastRow(rows)
            /\ rpc = "done"
            /\ \A r \in 1..Len(rows) : RowText(g_pad, 2 * r - 1) = PaddedRow(rows, r)

(***************************************************************************)
(* parse_html_tree on deeply nested markup, taken up where the stack is    *)
(* nearly full.  The tag stack is an array of StackCap pointers;           *)
(* stack[sp++] = node with sp = StackCap writes behind it, which is        *)
(* undefined: the write lands in the memory after the array and the loop   *)
(* goes on (ParseOpening), or the heap it damaged ends the process         *)
(* (ParseOverflow).                                                        *)
(***************************************************************************)
StackCap == 4096    \* xmalloc(sizeof(Node*) * 4096)
NestWindow == 40    \* how far below the capacity the runs are taken up

\* n opening tags <p>, none closed
Nested(n) == [i \in 1..(3 * n) |-> Str(<<">", "<", "p">>)[(i % 3) + 1]]

\* The locals of parse_html_tree after the first k tags of Nested(n), k <= n:
\* node i + 1 is the paragraph of tag i, the only child of node i, and all
\* of them are open
NestStart(k) ==
    [pos |-> 3 * k + 1,
     stack |-> [i \in 1..(k + 1) |-> i],
     nodes |-> [i \in 1..(k + 1) |->
                  [node_create(IF i = 1 THEN "NODE_DIV" ELSE "NODE_PARAGRAPH")
                      EXCEPT !.parent = i - 1,
                             !.children = IF i <= k THEN <<i + 1>> ELSE <<>>]],
     done |-> FALSE, last |-> IF k = 0 THEN "start" ELSE "open",
     pushes |-> k, matched |-> 0]

\* Closing tags that match nothing, between opening tags
NestShallow ==
    Str(<<"<", "p", ">", "<", "/", "d", "i", "v", ">", "<", "/", "p", ">",
          "<", "/", "d", "i", "v", ">", "<", "p", ">">>)

NestInit ==
    /\ SessionIdle /\ PreIdle /\ RenderIdle /\ AttrIdle /\ CalcIdle
    /\ \/ /\ html \in {Nested(StackCap - 1), Nested(StackCap), Nested(StackCap + 1)}
          /\ ps \in {NestStart(k) : k \in (StackCap - NestWindow)..(StackCap - 2)}
       \/ /\ html = NestShallow
          /\ ps = ParseStart

\* stack[sp++] = node behind the end of the array, and the process dies of it
ParseOverflow ==
    /\ ~ps.done /\ Look(html, ps.pos).kind = "open"
    /\ OpenLookup(Look(html, ps.pos).tag).push
    /\ Len(ps.stack) >= StackCap
    /\ ps' = [ps EXCEPT !.done = TRUE, !.last = "fault"]
    /\ UNCHANGED <<attrVars, calcVars, html, sessionVars, preVars, renderVars>>

NestNext ==
    \/ ParseOpening
    \/ ParseClosing
    \/ ParseEnd
    \/ ParseOverflow

SpecNest == NestInit /\ [][NestNext]_vars

\* C27: at every step of parsing any input the stack pointer sp satisfies
\* 1 <= sp <= StackCap, the synthetic root is stack[0] and no closing tag pops
\* it, every stack entry above the root is a descendant of the entry below it,
\* and no sequence of opening tags makes the builder write past the end of the
\* stack array.
C27_TagStackBounds ==
    ps # <<>> =>
        /\ 1 <= Len(ps.stack) /\ Len(ps.stack) <= StackCap
        /\ ps.stack[1] = 1
        /\ ps.last # "fault"
        /\ \A i \in 2..Len(ps.stack) :
              \E d \in 1..Len(ps.nodes) : Up(ps.nodes, ps.stack[i], d) = ps.stack[i - 1]

\* C22: a key other than quit, reload, line-up, line-down, page-up and
\* page-down leaves the scroll offset, the content height, the tree and the
\* running and need-load flags unchanged, and the input loop goes on to wait
\* for the next key.
C22_UnrecognisedKeyIgnored ==
    [][ (pc = "ui" /\ ch' = "other") =>
           /\ top_pos' = top_pos
           /\ g_pad_cur_y' = g_pad_cur_y
           /\ root' = root /\ dom' = dom /\ allocs' = allocs
           /\ running' = running /\ need_load' = need_load
           /\ pc' = "ui" ]_vars

\* An unrecognised key was read while the page stood scrolled down, and the
\* loop waits for the next key.
C22_Witness ==
    pc = "ui" /\ ch = "other" /\ top_pos > 0 /\ running = 1 /\ need_load = 0

(***************************************************************************)
(* parse_attrs on the attribute text of a tag: at most MaxAttrs attributes *)
(* as they are written in markup, each after one space, and the lookups    *)
(* attr_get_value answers on the list.                                     *)
(***************************************************************************)
MaxAttrs == 2

\* An attribute as written: a name alone, name=value, name="value" or
\* name='value'
AttrNames == {Str(<<"a">>), Str(<<"A">>), Str(<<"b">>)}

AttrForms ==
    { [form |-> "bare", value |-> <<>>],
      [form |-> "plain", value |-> Str(<<"1">>)],
      [form |-> "dq", value |-> Str(<<"2", " ", "3">>)],
      [form |-> "sq", value |-> Str(<<"4">>)] }

AttrItems == {[name |-> n, form |-> f.form, value |-> f.value] :
                  n \in AttrNames, f \in AttrForms}

ItemText(it) ==
    CASE it.form = "bare" -> it.name
      [] it.form = "plain" -> it.name \o <<C_EQ>> \o it.value
      [] it.form = "dq" -> it.name \o <<C_EQ, C_DQ>> \o it.value \o <<C_DQ>>
      [] it.form = "sq" -> it.name \o <<C_EQ, C_SQ>> \o it.value \o <<C_SQ>>

AttrText(items) == Concat([i \in 1..Len(items) |-> <<C_SP>> \o ItemText(items[i])])

\* The names the renderer and the claim look up
AttrQueries == {Str(<<"a">>), Str(<<"b">>), Str(<<"c">>)}

AttrsInit ==
    /\ SessionIdle /\ PreIdle /\ ParseIdle /\ RenderIdle /\ CalcIdle
    /\ awritten \in SeqsUpTo(AttrItems, MaxAttrs)
    /\ atext = AttrText(awritten)
    /\ attrs = <<>>
    /\ apc = "in"

AttrsCall ==
    /\ apc = "in"
    /\ attrs' = parse_attrs(atext)
    /\ apc' = "out"
    /\ UNCHANGED <<atext, awritten, calcVars, sessionVars, preVars, parseVars, renderVars>>

AttrsNext == AttrsCall

SpecAttrs == AttrsInit /\ [][AttrsNext]_vars

\* The attribute of the written text a lookup of name q is to answer: the
\* first one whose name is q in any case
FirstWritten(items, q) ==
    LET hits == {i \in 1..Len(items) : strcaseeq(items[i].name, q)}
    IN  IF hits = {} THEN 0 ELSE CHOOSE i \in hits : \A j \in hits : i <= j

\* C21: for every attribute text made of name=value pairs with quoted or
\* unquoted values and of valueless names, looking up a name (in any case)
\* answers the value written for the first occurrence of that name and answers
\* no value for a name that does not occur; a valueless attribute neither
\* absorbs nor hides the attribute that follows it.
C21_AttributeMapping ==
    apc = "out" =>
        \A q \in AttrQueries :
            LET k == FirstWritten(awritten, q)
                got == attr_get_value(attrs, q)
            IN  IF k = 0 THEN ~got.found
                ELSE got.found /\ got.value = awritten[k].value

(***************************************************************************)
(* The calculator reading one line: tokenize one loop iteration at a time, *)
(* then the parser and the branch of main on the error.  The lines are at  *)
(* most MaxLineToks pieces joined by spaces, and the lines of LongLines.   *)
(***************************************************************************)
MaxLineToks == 3

CalcPieces ==
    { Str(<<"x">>), Str(<<"i">>), L_const, L_abs, <<C_EQ>>, Str(<<"5">>), Str(<<"0">>),
      <<C_PLUS>>, <<C_SLASH>>, <<C_LP>>, <<C_RP>> }

JoinLine(ws) ==
    Concat([i \in 1..Len(ws) |-> IF i = 1 THEN ws[i] ELSE <<C_SP>> \o ws[i]])

\* n times the number 1 and a space
Ones(n) == [i \in 1..(2 * n) |-> IF i % 2 = 1 THEN Ch("1") ELSE C_SP]

L_x_is_5 == Str(<<"x", " ", "=", " ", "5">>)

LongLines ==
    { Str(<<"x", " ", "=", " ", "5", " ", ")">>),
      Str(<<"x", " ", "=", " ", "5", " ", "/", " ", "0">>),
      Str(<<"i", " ", "=", " ", "5", " ", ")">>),
      Str(<<"a", "b", "s", " ", "(", " ", "5", " ", ")">>),
      Str(<<"a", "b", "s", "(", "5", ",", "5", ")">>),
      Str(<<"c", "o", "n", "s", "t", " ", "=", " ", "0", " ", "x", " ", "=", " ", "5">>),
      Str(<<"5", " ", "#">>),
      Str(<<"-", ".">>),
      Ones(MAX_TOKENS - 1),
      Ones(MAX_TOKENS) }

\* The lines main hands to evaluate_expression: not empty, shorter than the
\* input buffer, no command
CalcLines ==
    {l \in {JoinLine(ws) : ws \in SeqsUpTo(CalcPieces, MaxLineToks)} \cup LongLines :
        Len(l) > 0 /\ Len(l) < MAX_INPUT /\ handle_command(l) = 0}

\* The calculator before the line: as init_calculator leaves it, or after the
\* line x = 5
CalcStarts == {init_calculator, RunLine(init_calculator, L_x_is_5)}

CalcInit ==
    /\ SessionIdle /\ PreIdle /\ ParseIdle /\ RenderIdle /\ AttrIdle
    /\ cline \in CalcLines
    /\ calc \in CalcStarts
    /\ tk = [p |-> 1, tokens |-> <<>>]
    /\ cerr = "CALC_OK"
    /\ cread = 0 - 1
    /\ cpc = "tokenize"

\* One iteration of the loop of tokenize that writes a token or skips a space
TokLoop ==
    /\ cpc = "tokenize"
    /\ TokLoops(cline, tk)
    /\ TokKind(cline, tk.p) # "unknown"
    /\ tk' = TokStep(cline, tk)
    /\ UNCHANGED <<attrVars, cline, calc, cerr, cread, cpc, sessionVars, preVars,
                   parseVars, renderVars>>

\* The iteration that finds an unknown character: tokenize returns NULL,
\* evaluate_expression returns 0 and main prints the error
TokUnknown ==
    /\ cpc = "tokenize"
    /\ TokLoops(cline, tk)
    /\ TokKind(cline, tk.p) = "unknown"
    /\ cerr' = "CALC_ERROR_SYNTAX"
    /\ cpc' = "done"
    /\ UNCHANGED <<attrVars, cline, tk, calc, cread, sessionVars, preVars, parseVars,
                   renderVars>>

\* The loop is left and the EOF token is written at slot token_count
TokEof ==
    /\ cpc = "tokenize"
    /\ ~TokLoops(cline, tk)
    /\ tk' = TokEofStep(tk)
    /\ cpc' = "parse"
    /\ UNCHANGED <<attrVars, cline, calc, cerr, cread, sessionVars, preVars, parseVars,
                   renderVars>>

\* The loop is left with every slot written: the EOF token goes past the end
\* of the malloc'd array, and the process may die of it
TokEofFault ==
    /\ cpc = "tokenize"
    /\ ~TokLoops(cline, tk)
    /\ Len(tk.tokens) >= MAX_TOKENS
    /\ cpc' = "fault"
    /\ UNCHANGED <<attrVars, cline, tk, calc, cerr, cread, sessionVars, preVars,
                   parseVars, renderVars>>

\* parse_assignment, the check of the rest of the line, and main's branch on
\* the error
CalcEval ==
    /\ cpc = "parse"
    /\ LET Return(r) == /\ calc' = r.calc
                         /\ cerr' = r.error
                         /\ cread' = r.hi
       IN  Return(EvalLine(calc, cline, tk.tokens))
    /\ cpc' = "done"
    /\ UNCHANGED <<attrVars, cline, tk, sessionVars, preVars, parseVars, renderVars>>

CalcNext == TokLoop \/ TokUnknown \/ TokEof \/ TokEofFault \/ CalcEval

SpecCalc == CalcInit /\ [][CalcNext]_vars

\* C29: whenever a line ends with an error other than CALC_OK, the variable
\* table (names, values, count) is the same as before the line and no history
\* entry was added; only a line that evaluates without error creates or
\* updates a variable.
C29_StateUnchangedOnError ==
    [][ (cpc # "done" /\ cpc' = "done" /\ cerr' # "CALC_OK") =>
            /\ calc'.variables = calc.variables
            /\ calc'.history = calc.history
            /\ calc'.history_count = calc.history_count
            /\ calc'.history_index = calc.history_index ]_vars

\* C30: tokenize writes only to the token slots 0..MAX_TOKENS-1, the EOF
\* token included, the process does not die of a write past them, and the
\* parser reads no slot at or beyond the token count tokenize reported.
C30_TokenBufferBound ==
    cpc # "idle" =>
        /\ Len(tk.tokens) <= MAX_TOKENS
        /\ cpc # "fault"
        /\ cread < Len(tk.tokens)

====
